---- MODULE Spec2Model ----
(***************************************************************************)
(* Streaming-response state machine of the PayTech AI Assistant frontend   *)
(* (app.js): the delta buffer (streamAppend / flushStreamNow / the         *)
(* animation-frame flush), the stream session (startStreamingIntoMessage,  *)
(* finalizeStreaming, finalizeStreamingInterrupted), the send controller   *)
(* (sendMessage with its watchdog, runChatFallback, catch and finally) and *)
(* the conversation operations that re-render the thread.                  *)
(*                                                                         *)
(* Further specifications on the same variables cover readSseStream (fed   *)
(* in chunks, and on single frames), the delta buffer alone, a session     *)
(* with sources and artifacts, fetchWithRetry and the title hook.          *)
(*                                                                         *)
(* Texts are sequences of one-character strings.  Fixed user-facing        *)
(* strings of the program are single tokens.  Every await of the program   *)
(* is a separate step.                                                     *)
(***************************************************************************)
EXTENDS Integers, Sequences, FiniteSets, TLC

\* ------------------------------------------------------------------ bounds
\* number of sendMessage calls that get past the guards
MaxSends == 2
\* number of protocol events one stream delivers before it ends
MaxFrames == 2
\* number of streamAppend calls in the delta-buffer specification
MaxAppends == 4
\* number of lines of the byte stream fed to readSseStream
MaxLines == 3
\* number of artifact events one stream delivers
MaxArtifacts == 2
\* largest `retries` option passed to fetchWithRetry
MaxRetries == 4

Sends == 1..MaxSends

\* ---------------------------------------------------------------- endpoints
\* calls of ensureBackendBaseOnline / pingBackendHealth that can overlap
MaxCallers == 2
\* calls of them in one run
MaxCalls == 3
\* requests to /health in one run
MaxProbes == 3

BaseLocalhost == "http://localhost:8000"
BaseIp == "http://127.0.0.1:8000"
\* an endpoint given by ?api= or saved earlier
BaseCustom == "https://api.example"
Bases == {BaseLocalhost, BaseIp, BaseCustom}

\* ------------------------------------------------------------------- texts
\* the whitespace characters in use
Whitespace == {" ", "\n", "\r", "\t"}

RECURSIVE TrimStart(_)
TrimStart(s) == IF s # <<>> /\ Head(s) \in Whitespace THEN TrimStart(Tail(s)) ELSE s

RECURSIVE TrimEnd(_)
TrimEnd(s) ==
  IF s # <<>> /\ s[Len(s)] \in Whitespace THEN TrimEnd(SubSeq(s, 1, Len(s) - 1)) ELSE s

\* String.prototype.trim
Trim(s) == TrimEnd(TrimStart(s))

IsPrefix(a, b) == Len(a) <= Len(b) /\ SubSeq(b, 1, Len(a)) = a

IsSuffix(a, b) == Len(a) <= Len(b) /\ SubSeq(b, Len(b) - Len(a) + 1, Len(b)) = a

\* fixed strings of the program
PlaceholderInterrupted == <<"Geracao interrompida.">>
ErrDefault == <<"Falha ao gerar resposta.">>
ErrStreaming == <<"Erro no streaming.">>
ErrServerStatus == <<"Servidor retornou status.">>
ErrEmptyReply == <<"Resposta vazia do servidor.">>
ErrNoStream == <<"Resposta invalida do servidor (sem stream).">>
ErrUpload == <<"Falha no upload dos documentos.">>
ErrFallbackStatus == <<"Fallback /chat retornou status.">>
ErrFallbackEmpty == <<"Fallback /chat retornou vazio.">>
ErrFallbackFailed == <<"Falha no fallback /chat.">>
ErrStreamEnded == <<"Stream finalizou sem resposta (possivel reload do backend).">>
ErrConnect == <<"Falha ao conectar ao backend.">>

\* the letter carried by the k-th frame of send s (frames are told apart)
Letters == <<"a", "b", "c", "d", "e", "f", "g", "h", "i", "j", "k", "l", "m", "n", "o", "p">>
Letter(s, k) == Letters[(((s - 1) * 4 + k - 1) % 16) + 1]
\* texts a delta frame can carry: empty, whitespace only, or a letter
DeltaTexts(s, k) == {<<>>, <<" ">>, <<Letter(s, k)>>}
\* raw `reply` fields a /chat response can carry
Replies == {<<>>, <<" ", "x">>}
\* `message` fields a status/error frame can carry (absent = empty)
ServerMessages == {<<>>, <<"m">>}

\* ------------------------------------------------------------ message ids
UserMsgId(s) == 2 * s - 1
AsstMsgId(s) == 2 * s
AsstIds == {AsstMsgId(s) : s \in Sends}
NoId == 0

\* ------------------------------------------------------------------ state
VARIABLES
  conversations,          \* conv id -> sequence of messages (domain: existing conversations)
  selectedConversationId, \* 0 = null
  thread,                 \* ids of the messages that have an article in #thread
  streamingMsg,           \* the live session (live = FALSE models null)
  streamBuffer,
  streamFlushRaf,         \* 0, or 1 for the id of the requested frame
  rafScheduled,           \* animation-frame callbacks the browser holds
  isGenerating,
  sendInFlight,
  currentAbortController, \* 0 = null, else the send that created it
  aborted,                \* sends whose AbortController was aborted
  sends,                  \* per sendMessage call: position and closure variables
  nSends,                 \* sendMessage calls accepted so far
  outcome,                \* history: how the session of each assistant message was finalized
  appended,               \* history: the texts passed to streamAppend in the live session
  stream,                 \* the characters of the response body given to readSseStream
  pos,                    \* how many of them reader.read() has delivered
  parser,                 \* readSseStream: buf, event, dataLines, sawTerminal, handler calls
  readerDone,             \* reader.read() reported done and readSseStream returned
  boundary,               \* history: where chunk boundaries fell ("none", "crlf", "other")
  frame,                  \* history: the parts the one-frame body was built from
  titleTimers,            \* conv id -> pending setTimeout(maybeAutoTitleConversation) calls
  titleMeta,              \* conv id -> titleSource, titleAutoDone, title, request state
  fetcher,                \* one call of fetchWithRetry
  backend                 \* BACKEND_BASE, the health cache and the calls that probe it

appVars == <<conversations, selectedConversationId, thread, streamingMsg, streamBuffer,
             streamFlushRaf, rafScheduled, isGenerating, sendInFlight,
             currentAbortController, aborted, sends, nSends, outcome, appended, titleTimers>>

parserVars == <<stream, pos, parser, readerDone, boundary, frame>>

helperVars == <<titleMeta, fetcher, backend>>

vars == <<appVars, parserVars, helperVars>>

NullStreamingMsg ==
  [live |-> FALSE, convId |-> NoId, msgId |-> NoId, hasFirstChunk |-> FALSE,
   bound |-> FALSE, textNode |-> <<>>, sources |-> <<>>, artifacts |-> <<>>]

\* The globals as one record, so that a handler is the composition of the
\* functions it calls.
Cur ==
  [conversations |-> conversations, selectedConversationId |-> selectedConversationId,
   thread |-> thread, streamingMsg |-> streamingMsg, streamBuffer |-> streamBuffer,
   streamFlushRaf |-> streamFlushRaf, rafScheduled |-> rafScheduled,
   isGenerating |-> isGenerating, sendInFlight |-> sendInFlight,
   currentAbortController |-> currentAbortController, aborted |-> aborted,
   outcome |-> outcome, appended |-> appended, titleTimers |-> titleTimers]

\* the globals after a step of the app
CommitApp(g) ==
  /\ conversations' = g.conversations
  /\ selectedConversationId' = g.selectedConversationId
  /\ thread' = g.thread
  /\ streamingMsg' = g.streamingMsg
  /\ streamBuffer' = g.streamBuffer
  /\ streamFlushRaf' = g.streamFlushRaf
  /\ rafScheduled' = g.rafScheduled
  /\ isGenerating' = g.isGenerating
  /\ sendInFlight' = g.sendInFlight
  /\ currentAbortController' = g.currentAbortController
  /\ aborted' = g.aborted
  /\ outcome' = g.outcome
  /\ appended' = g.appended
  /\ titleTimers' = g.titleTimers
  /\ UNCHANGED parserVars

Commit(g) == CommitApp(g) /\ UNCHANGED helperVars

\* ------------------------------------------------- conversations, messages
HasConv(g, c) == c \in DOMAIN g.conversations

\* conv?.messages?.find((m) => m.id === msgId): index of the message, 0 if none
FirstIndex(ms, m) ==
  IF \E i \in 1..Len(ms) : ms[i].id = m
  THEN CHOOSE i \in 1..Len(ms) : ms[i].id = m /\ \A j \in 1..(i - 1) : ms[j].id # m
  ELSE 0

MsgIndex(g, c, m) == IF HasConv(g, c) THEN FirstIndex(g.conversations[c], m) ELSE 0

HasMsg(g, c, m) == MsgIndex(g, c, m) # 0

ContentAt(g, c, i) == IF i = 0 THEN <<>> ELSE g.conversations[c][i].content

\* String(msg?.content || "")
MsgContent(g, c, m) == ContentAt(g, c, MsgIndex(g, c, m))

SetContentAt(g, c, i, text) ==
  IF i = 0 THEN g ELSE [g EXCEPT !.conversations[c][i].content = text]

\* if (msg) msg.content = text
SetMsgContent(g, c, m, text) == SetContentAt(g, c, MsgIndex(g, c, m), text)

SetInterruptedAt(g, c, i) ==
  IF i = 0 THEN g ELSE [g EXCEPT !.conversations[c][i].interrupted = TRUE]

\* msg.interrupted = true
SetMsgInterrupted(g, c, m) == SetInterruptedAt(g, c, MsgIndex(g, c, m))

\* ------------------------------------------------------- thread rendering
\* if (streamFlushRaf) { cancelAnimationFrame(streamFlushRaf); streamFlushRaf = 0; }
CancelFlush(g) ==
  IF g.streamFlushRaf # 0
  THEN [g EXCEPT !.rafScheduled = IF @ > 0 THEN @ - 1 ELSE @, !.streamFlushRaf = 0]
  ELSE g

\* streamingMsg.contentEl = textNode = cursorEl = thinkingEl = null
Unbind(sm) == IF sm.live THEN [sm EXCEPT !.bound = FALSE, !.textNode = <<>>] ELSE sm

clearThread(g) ==
  CancelFlush([g EXCEPT !.thread = {}, !.streamingMsg = Unbind(@), !.streamBuffer = <<>>])

\* the articles renderThread builds for the selected conversation
RenderSelected(g, c) ==
  IF HasConv(g, c)
  THEN [g EXCEPT !.thread = {g.conversations[c][i].id : i \in 1..Len(g.conversations[c])}]
  ELSE g

renderThread(g) == RenderSelected(clearThread(g), g.selectedConversationId)

\* Rebind with a new, empty text node
Rebind_EmptyNode(g, existingText) ==
  [g EXCEPT !.streamingMsg.bound = TRUE,
            !.streamingMsg.textNode = <<>>,
            !.streamingMsg.hasFirstChunk = IF Trim(existingText) # <<>> THEN TRUE ELSE @]

\* ensureStreamingBind when the article exists and is not the bound one
Rebind(g, existingText) ==
  [g EXCEPT !.streamingMsg.bound = TRUE,
            !.streamingMsg.textNode = existingText,
            !.streamingMsg.hasFirstChunk = IF Trim(existingText) # <<>> THEN TRUE ELSE @]

ensureStreamingBind(g) ==
  IF ~g.streamingMsg.live \/ g.streamingMsg.msgId \notin g.thread \/ g.streamingMsg.bound
  THEN g
  ELSE Rebind(g, MsgContent(g, g.streamingMsg.convId, g.streamingMsg.msgId))

\* ----------------------------------------------------------- delta buffer
\* streamingMsg.textNode?.appendData?.(streamBuffer)
AppendToTextNode(g) ==
  IF g.streamingMsg.bound
  THEN [g EXCEPT !.streamingMsg.textNode = @ \o g.streamBuffer]
  ELSE g

\* if (msg) msg.content = String(msg.content || "") + streamBuffer
AppendToMessage(g, c, m) == SetMsgContent(g, c, m, MsgContent(g, c, m) \o g.streamBuffer)

\* the part flushStreamNow and the animation-frame callback share
DrainBuffer(g) ==
  [AppendToMessage(AppendToTextNode(g), g.streamingMsg.convId, g.streamingMsg.msgId)
     EXCEPT !.streamBuffer = <<>>]

DrainIfAny(g) == IF g.streamBuffer = <<>> THEN g ELSE DrainBuffer(g)

\* flushStreamNow that cancels the frame and leaves the buffer where it is
flushStreamNow_NoDrain(g) ==
  IF ~g.streamingMsg.live THEN g ELSE CancelFlush(ensureStreamingBind(g))

flushStreamNow(g) ==
  IF ~g.streamingMsg.live THEN g ELSE DrainIfAny(CancelFlush(ensureStreamingBind(g)))

\* the animation-frame callback without streamBuffer = ""
RafCallback_KeepsBuffer(g) ==
  IF ~g.streamingMsg.live \/ g.streamBuffer = <<>>
  THEN [g EXCEPT !.streamFlushRaf = 0]
  ELSE [DrainBuffer([g EXCEPT !.streamFlushRaf = 0]) EXCEPT !.streamBuffer = g.streamBuffer]

\* the callback streamAppend hands to requestAnimationFrame
RafCallback(g) ==
  IF ~g.streamingMsg.live \/ g.streamBuffer = <<>>
  THEN [g EXCEPT !.streamFlushRaf = 0]
  ELSE DrainBuffer([g EXCEPT !.streamFlushRaf = 0])

\* AppendText that requests a frame on every call
AppendText_AlwaysSchedules(g, text) ==
  [g EXCEPT !.streamingMsg.hasFirstChunk = TRUE,
            !.streamBuffer = @ \o text,
            !.appended = @ \o text,
            !.rafScheduled = @ + 1,
            !.streamFlushRaf = 1]

\* streamAppend after ensureStreamingBind
AppendText(g, text) ==
  [g EXCEPT !.streamingMsg.hasFirstChunk = TRUE,
            !.streamBuffer = @ \o text,
            !.appended = @ \o text,
            !.rafScheduled = IF g.streamFlushRaf # 0 THEN @ ELSE @ + 1,
            !.streamFlushRaf = 1]

streamAppend(g, text) ==
  IF ~g.streamingMsg.live THEN g ELSE AppendText(ensureStreamingBind(g), text)

setThinkingStatus(g) == ensureStreamingBind(g)

ensureThinkingVisible(g) == ensureStreamingBind(g)

\* --------------------------------------------------------- stream session
NewStreamingMsg(convId, msgId) ==
  [live |-> TRUE, convId |-> convId, msgId |-> msgId, hasFirstChunk |-> FALSE,
   bound |-> TRUE, textNode |-> <<>>, sources |-> <<>>, artifacts |-> <<>>]

startStreamingIntoMessage(g, convId, msgId) ==
  CancelFlush([g EXCEPT !.streamingMsg = NewStreamingMsg(convId, msgId),
                        !.streamBuffer = <<>>,
                        !.appended = <<>>])

\* streamingMsg.sources = Array.isArray(items) ? items : []
setStreamingSources(g, items) ==
  IF ~g.streamingMsg.live THEN g ELSE [g EXCEPT !.streamingMsg.sources = items]

\* streamingMsg.artifacts.push(artifact)
pushStreamingArtifact(g, artifact) ==
  IF ~g.streamingMsg.live THEN g ELSE [g EXCEPT !.streamingMsg.artifacts = Append(@, artifact)]

SetResultsAt(g, c, i, finalSources, finalArtifacts) ==
  [g EXCEPT !.conversations[c][i].sources = finalSources,
            !.conversations[c][i].artifacts = IF finalArtifacts # <<>> THEN finalArtifacts ELSE @]

\* finalSources = []; msg.sources = finalSources;
\* if (finalArtifacts.length) msg.artifacts = finalArtifacts
AttachResults(g, c, m) == SetResultsAt(g, c, MsgIndex(g, c, m), <<>>, g.streamingMsg.artifacts)

\* streamingMsg = null, with the history of how message m was finalized
Release(g, m, how) ==
  [g EXCEPT !.streamingMsg = NullStreamingMsg, !.outcome[m] = how, !.appended = <<>>]

\* if (ok) setTimeout(() => maybeAutoTitleConversation(convId), 0)
ScheduleTitle(g, c) == [g EXCEPT !.titleTimers[c] = @ + 1]

\* finalizeStreaming after flushStreamNow
FinalizeFlushed(g, c, m, ok, errorMessage) ==
  IF ~HasMsg(g, c, m) THEN Release(g, m, "detached")
  ELSE IF ok THEN ScheduleTitle(Release(AttachResults(g, c, m), m, "ok"), c)
  ELSE Release(AttachResults(
                 SetMsgContent(g, c, m, IF errorMessage # <<>> THEN errorMessage ELSE ErrDefault),
                 c, m),
               m, "error")

finalizeStreaming(g, ok, errorMessage) ==
  IF ~g.streamingMsg.live THEN g
  ELSE FinalizeFlushed(flushStreamNow(g), g.streamingMsg.convId, g.streamingMsg.msgId,
                       ok, errorMessage)

\* finalizeStreamingInterrupted that leaves a blank content as it is
PlaceholderIfBlank_Keeps(g, c, m) == g

\* if (!String(msg.content || "").trim()) msg.content = "Geração interrompida."
PlaceholderIfBlank(g, c, m) ==
  IF Trim(MsgContent(g, c, m)) = <<>> THEN SetMsgContent(g, c, m, PlaceholderInterrupted) ELSE g

\* finalizeStreamingInterrupted after flushStreamNow
InterruptFlushed(g, c, m) ==
  IF ~HasMsg(g, c, m) THEN Release(g, m, "detached")
  ELSE Release(PlaceholderIfBlank(SetMsgInterrupted(g, c, m), c, m), m, "interrupted")

finalizeStreamingInterrupted(g) ==
  IF ~g.streamingMsg.live THEN g
  ELSE InterruptFlushed(flushStreamNow(g), g.streamingMsg.convId, g.streamingMsg.msgId)

\* ------------------------------------------------------------ readSseStream
\* Texts of the byte stream are sequences of characters.
FieldEvent == <<"e", "v", "e", "n", "t", ":">>
FieldData == <<"d", "a", "t", "a", ":">>
DoneSentinel == <<"[", "D", "O", "N", "E", "]">>
NameMessage == <<"m", "e", "s", "s", "a", "g", "e">>
NameEvent == <<"e", "v", "e", "n", "t">>
NameDelta == <<"d", "e", "l", "t", "a">>
NameStatus == <<"s", "t", "a", "t", "u", "s">>
NameMeta == <<"m", "e", "t", "a">>
NameSources == <<"s", "o", "u", "r", "c", "e", "s">>
NameArtifact == <<"a", "r", "t", "i", "f", "a", "c", "t">>
NameCitations == <<"c", "i", "t", "a", "t", "i", "o", "n", "s">>
NameError == <<"e", "r", "r", "o", "r">>
NameDone == <<"d", "o", "n", "e">>
\* the payload onError gets when the frame has none: { message: "Erro." }
DefaultErrorPayload == <<"Erro.">>

\* buf.indexOf(c), counted from 1; 0 when c does not occur
IndexOf(s, c) ==
  IF \E i \in 1..Len(s) : s[i] = c
  THEN CHOOSE i \in 1..Len(s) : s[i] = c /\ \A j \in 1..(i - 1) : s[j] # c
  ELSE 0

StartsWith(s, prefix) == Len(s) >= Len(prefix) /\ SubSeq(s, 1, Len(prefix)) = prefix

\* s.slice(n)
Drop(s, n) == SubSeq(s, n + 1, Len(s))

\* if (line.endsWith("\r")) line = line.slice(0, -1)
StripCR(line) ==
  IF line # <<>> /\ line[Len(line)] = "\r" THEN SubSeq(line, 1, Len(line) - 1) ELSE line

\* dataLines.join("\n")
RECURSIVE Join(_)
Join(lines) ==
  IF lines = <<>> THEN <<>>
  ELSE IF Len(lines) = 1 THEN lines[1]
  ELSE lines[1] \o <<"\n">> \o Join(Tail(lines))

\* splitLeadingJson: the index of the first character that is not whitespace
RECURSIVE SkipSpaces(_, _)
SkipSpaces(s, i) == IF i <= Len(s) /\ s[i] \in Whitespace THEN SkipSpaces(s, i + 1) ELSE i

\* splitLeadingJson: the scan for the character that closes the leading value
\* (0 when the text ends first)
RECURSIVE JsonEnd(_, _, _, _, _)
JsonEnd(s, j, depth, inString, esc) ==
  IF j > Len(s) THEN 0
  ELSE IF inString
  THEN IF esc THEN JsonEnd(s, j + 1, depth, TRUE, FALSE)
       ELSE IF s[j] = "\\" THEN JsonEnd(s, j + 1, depth, TRUE, TRUE)
       ELSE IF s[j] = "\"" THEN JsonEnd(s, j + 1, depth, FALSE, FALSE)
       ELSE JsonEnd(s, j + 1, depth, TRUE, FALSE)
  ELSE IF s[j] = "\"" THEN JsonEnd(s, j + 1, depth, TRUE, FALSE)
  ELSE IF s[j] \in {"{", "["} THEN JsonEnd(s, j + 1, depth + 1, FALSE, FALSE)
  ELSE IF s[j] \in {"}", "]"}
  THEN IF depth = 1 THEN j ELSE JsonEnd(s, j + 1, depth - 1, FALSE, FALSE)
  ELSE IF depth = 0 THEN j ELSE JsonEnd(s, j + 1, depth, FALSE, FALSE)

NoSplit == [found |-> FALSE, jsonText |-> <<>>, rest |-> <<>>]

SplitAt(s, i, j) ==
  IF j = 0 THEN NoSplit
  ELSE [found |-> TRUE, jsonText |-> SubSeq(s, i, j), rest |-> Drop(s, j)]

SplitFrom(s, i) ==
  IF i > Len(s) \/ s[i] \notin {"{", "["} THEN NoSplit
  ELSE SplitAt(s, i, JsonEnd(s, i, 0, FALSE, FALSE))

splitLeadingJson(text) == SplitFrom(text, SkipSpaces(text, 1))

\* What safeJsonParse returns, as far as readSseStream looks at it: null, or an
\* object with its type/event field, its phase field and its text field
\* (text, t, delta or content), or a string.  Of the texts the streams below
\* can carry only {} is valid JSON.
NullPayload ==
  [kind |-> "null", json |-> <<>>, type |-> <<>>, phase |-> <<>>, hasText |-> FALSE,
   text |-> <<>>]

EmptyObject ==
  [kind |-> "object", json |-> <<"{", "}">>, type |-> <<>>, phase |-> <<>>,
   hasText |-> FALSE, text |-> <<>>]

\* JSON texts the frames below carry
JsonTypeDelta ==
  <<"{", "\"", "t", "y", "p", "e", "\"", ":", "\"", "d", "e", "l", "t", "a", "\"", "}">>
JsonTextT == <<"{", "\"", "t", "e", "x", "t", "\"", ":", "\"", "T", "\"", "}">>
JsonTypeDeltaTextT ==
  <<"{", "\"", "t", "y", "p", "e", "\"", ":", "\"", "d", "e", "l", "t", "a", "\"", ",",
    "\"", "t", "e", "x", "t", "\"", ":", "\"", "T", "\"", "}">>
\* a text field that holds a closing brace
JsonTextBrace == <<"{", "\"", "t", "e", "x", "t", "\"", ":", "\"", "}", "\"", "}">>
JsonArray == <<"[", "1", "]">>
\* balanced, but not JSON
NotJson == <<"{", "a", "}">>
\* an event name emit has no branch for
NameFoo == <<"f", "o", "o">>
JsonTypeError ==
  <<"{", "\"", "t", "y", "p", "e", "\"", ":", "\"", "e", "r", "r", "o", "r", "\"", "}">>
JsonTypeFoo == <<"{", "\"", "t", "y", "p", "e", "\"", ":", "\"", "f", "o", "o", "\"", "}">>
\* the empty object written over two lines
JsonBraceLines == <<"{", "\n", "}">>
\* a JSON string
JsonString == <<"\"", "T", "\"">>

\* JSON.parse of a text without surrounding whitespace
JsonParse(t) ==
  CASE t = EmptyObject.json -> EmptyObject
    [] t = JsonTypeDelta -> [EmptyObject EXCEPT !.json = t, !.type = NameDelta]
    [] t = JsonTextT -> [EmptyObject EXCEPT !.json = t, !.hasText = TRUE, !.text = <<"T">>]
    [] t = JsonTypeDeltaTextT ->
         [EmptyObject EXCEPT !.json = t, !.type = NameDelta, !.hasText = TRUE, !.text = <<"T">>]
    [] t = JsonTextBrace -> [EmptyObject EXCEPT !.json = t, !.hasText = TRUE, !.text = <<"}">>]
    [] t = JsonArray -> [EmptyObject EXCEPT !.kind = "array", !.json = t]
    [] t = JsonTypeError -> [EmptyObject EXCEPT !.json = t, !.type = NameError]
    [] t = JsonTypeFoo -> [EmptyObject EXCEPT !.json = t, !.type = NameFoo]
    [] t = JsonBraceLines -> [EmptyObject EXCEPT !.json = t]
    [] t = JsonString -> [NullPayload EXCEPT !.kind = "string", !.json = t, !.text = <<"T">>]
    [] OTHER -> NullPayload

safeJsonParse(text) == JsonParse(Trim(text))

NewParser ==
  [buf |-> <<>>, event |-> NameMessage, dataLines |-> <<>>, sawTerminal |-> FALSE,
   calls |-> <<>>]

\* handlers.h?.(arg)
Call(p, h, arg) == [p EXCEPT !.calls = Append(@, [handler |-> h, arg |-> arg])]

Terminal(p) == [p EXCEPT !.sawTerminal = TRUE]

\* EventName that lets the type field of the payload override any event name
EventName_PayloadFirst(ev, payload) ==
  IF payload.kind = "object" /\ Trim(payload.type) # <<>> THEN Trim(payload.type) ELSE ev

\* emit: the effective event name
EventName(ev, payload) ==
  IF ev \in {NameMessage, NameEvent} /\ payload.kind = "object" /\ Trim(payload.type) # <<>>
  THEN Trim(payload.type)
  ELSE ev

\* emit: deltaText
DeltaText(dataRaw, rest, payload) ==
  IF rest # <<>> THEN rest
  ELSE IF payload.kind = "null" THEN dataRaw
  ELSE IF payload.kind = "string" THEN payload.text
  ELSE IF payload.hasText THEN payload.text
  ELSE dataRaw

\* Route whose last branch renders every non-empty text, structured or not
Route_FallbackRendersObjects(p, eventName, deltaText, payload, jsonPrefix) ==
  CASE eventName = NameDelta -> Call(p, "onDelta", deltaText)
    [] eventName = NameStatus ->
         IF payload.kind = "object" /\ payload.phase \in {NameDone, NameError}
         THEN Terminal(Call(p, "onStatus", payload.json))
         ELSE Call(p, "onStatus", payload.json)
    [] eventName = NameMeta -> Call(p, "onMeta", payload.json)
    [] eventName = NameSources -> Call(p, "onSources", payload.json)
    [] eventName = NameArtifact -> Call(p, "onArtifact", payload.json)
    [] eventName = NameCitations -> Call(p, "onCitations", payload.json)
    [] eventName = NameError ->
         Call(Terminal(p), "onError",
              IF payload.kind = "null" THEN DefaultErrorPayload ELSE payload.json)
    [] eventName = NameDone -> Call(Terminal(p), "onDone", payload.json)
    [] OTHER -> IF deltaText # <<>> THEN Call(p, "onDelta", deltaText) ELSE p

\* emit: the dispatch on the event name
Route(p, eventName, deltaText, payload, jsonPrefix) ==
  CASE eventName = NameDelta -> Call(p, "onDelta", deltaText)
    [] eventName = NameStatus ->
         IF payload.kind = "object" /\ payload.phase \in {NameDone, NameError}
         THEN Terminal(Call(p, "onStatus", payload.json))
         ELSE Call(p, "onStatus", payload.json)
    [] eventName = NameMeta -> Call(p, "onMeta", payload.json)
    [] eventName = NameSources -> Call(p, "onSources", payload.json)
    [] eventName = NameArtifact -> Call(p, "onArtifact", payload.json)
    [] eventName = NameCitations -> Call(p, "onCitations", payload.json)
    [] eventName = NameError ->
         Call(Terminal(p), "onError",
              IF payload.kind = "null" THEN DefaultErrorPayload ELSE payload.json)
    [] eventName = NameDone -> Call(Terminal(p), "onDone", payload.json)
    [] OTHER ->
         IF deltaText # <<>> /\ ~(payload.kind = "object" /\ jsonPrefix)
         THEN Call(p, "onDelta", deltaText)
         ELSE p

\* emit after the [DONE] test
EmitPayload(p, dataRaw, split, payload) ==
  [Route(p, EventName(IF Trim(p.event) = <<>> THEN NameMessage ELSE Trim(p.event), payload),
         DeltaText(dataRaw, TrimStart(split.rest), payload), payload, split.found)
     EXCEPT !.event = NameMessage]

EmitSplit(p, dataRaw, split) ==
  EmitPayload(p, dataRaw, split, safeJsonParse(IF split.found THEN split.jsonText ELSE dataRaw))

\* EmitData without the test for the sentinel
EmitData_SentinelAsData(p, dataRaw) == EmitSplit(p, dataRaw, splitLeadingJson(dataRaw))

EmitData(p, dataRaw) ==
  IF Trim(dataRaw) = DoneSentinel
  THEN [Call(Terminal(p), "onDone", <<>>) EXCEPT !.event = NameMessage]
  ELSE EmitSplit(p, dataRaw, splitLeadingJson(dataRaw))

\* emit without the test for data lines
emit_WithoutDataLines(p) == EmitData([p EXCEPT !.dataLines = <<>>], Join(p.dataLines))

emit(p) ==
  IF p.dataLines = <<>> THEN p
  ELSE EmitData([p EXCEPT !.dataLines = <<>>], Join(p.dataLines))

\* the event name an `event:` line sets
EventField(line) ==
  IF Trim(Drop(line, Len(FieldEvent))) = <<>> THEN NameMessage
  ELSE Trim(Drop(line, Len(FieldEvent)))

\* ProcessLine whose data line replaces the data lines collected before it
ProcessLine_KeepsLastLine(p, line) ==
  IF line = <<>> THEN emit(p)
  ELSE IF StartsWith(line, FieldEvent) THEN [p EXCEPT !.event = EventField(line)]
  ELSE IF StartsWith(line, FieldData)
  THEN [p EXCEPT !.dataLines = <<TrimStart(Drop(line, Len(FieldData)))>>]
  ELSE p

\* the body of the inner while loop for one line
ProcessLine(p, line) ==
  IF line = <<>> THEN emit(p)
  ELSE IF StartsWith(line, FieldEvent) THEN [p EXCEPT !.event = EventField(line)]
  ELSE IF StartsWith(line, FieldData)
  THEN [p EXCEPT !.dataLines = Append(@, TrimStart(Drop(line, Len(FieldData))))]
  ELSE p

\* one turn of the inner loop: the line up to the newline at idx
TakeLine(p, idx) ==
  ProcessLine([p EXCEPT !.buf = Drop(@, idx)], StripCR(SubSeq(p.buf, 1, idx - 1)))

\* while ((idx = buf.indexOf("\n")) >= 0) { ... }
RECURSIVE DrainLines(_)
DrainLines(p) == IF IndexOf(p.buf, "\n") = 0 THEN p ELSE DrainLines(TakeLine(p, IndexOf(p.buf, "\n")))

\* ReadChunkInto that forgets the unfinished line at the end of a chunk
ReadChunkInto_DropsPartialLine(p, chunk) ==
  [DrainLines([p EXCEPT !.buf = @ \o chunk]) EXCEPT !.buf = <<>>]

\* buf += decoder.decode(value, { stream: true }) and the inner loop
ReadChunkInto(p, chunk) == DrainLines([p EXCEPT !.buf = @ \o chunk])

\* readSseStream fed the whole body as one chunk
SingleChunk(body) == emit(ReadChunkInto(NewParser, body))

\* --------------------------------------------------------------- sendMessage
\* The closure of one sendMessage call.  pc is the await it is suspended at.
\*   watchdog : watchdogTimer ("none" = 0, "armed", "fired")
\*   nframes  : events the stream has delivered so far
\*   fbMain   : the runChatFallback awaited by sendMessage itself
\*   fbWd     : the runChatFallback started by the watchdog timer
\*   sawAnyDelta : sawAnyDelta / sawAny of the read loop
\*   sawTerminal : sawTerminal of readSseStream
\*   fbStarted, fbReply, loopReturned, protocolError : history (runs of
\*              runChatFallback that got past its guards, the trimmed reply of the
\*              last run, read loop returned, onError / status error was called)
IdleSend ==
  [pc |-> "idle", conv |-> NoId, watchdog |-> "none", watchdogFallback |-> FALSE,
   emptyStreamDone |-> FALSE, nframes |-> 0, fbMain |-> "none", fbWd |-> "none",
   fbStarted |-> 0, fbReply |-> <<>>, loopReturned |-> FALSE,
   sawAnyDelta |-> FALSE, protocolError |-> FALSE, sawTerminal |-> FALSE]

InitApp ==
  /\ conversations = <<>>
  /\ selectedConversationId = NoId
  /\ thread = {}
  /\ streamingMsg = NullStreamingMsg
  /\ streamBuffer = <<>>
  /\ streamFlushRaf = 0
  /\ rafScheduled = 0
  /\ isGenerating = FALSE
  /\ sendInFlight = FALSE
  /\ currentAbortController = 0
  /\ aborted = {}
  /\ sends = [s \in Sends |-> IdleSend]
  /\ nSends = 0
  /\ outcome = [m \in AsstIds |-> "none"]
  /\ appended = <<>>
  /\ titleTimers = [c \in Sends |-> 0]

\* no response body is being parsed
NoFrame == [event |-> <<>>, prefix |-> <<>>, rest |-> <<>>]

InitParserIdle ==
  /\ frame = NoFrame
  /\ stream = <<>>
  /\ pos = 0
  /\ parser = NewParser
  /\ readerDone = FALSE
  /\ boundary = "none"

\* a conversation as createConversation makes it; no title request was made
NewTitleMeta ==
  [titleSource |-> "local", titleAutoDone |-> FALSE, title |-> <<"u">>, pending |-> 0,
   requests |-> 0]

\* no call of fetchWithRetry is running
IdleFetcher ==
  [pc |-> "idle", input |-> 0, retries |-> 0, attempt |-> 0, signalAborted |-> FALSE,
   attempts |-> 0, sleeps |-> 0, lastFailure |-> "none"]

\* a call of ensureBackendBaseOnline or pingBackendHealth that has not started
IdleCall ==
  [pc |-> "idle", kind |-> "none", candidates |-> <<>>, i |-> 0, probe |-> 0, own |-> FALSE,
   value |-> "null", entry |-> "", result |-> "none"]

\* the backend state when the page has loaded with the default endpoint
IdleBackend ==
  [base |-> BaseIp, stored |-> "", online |-> "null", lastBase |-> "", lastOk |-> "null",
   fresh |-> FALSE, inFlight |-> 0, probes |-> <<>>, entered |-> 0, jobs |-> <<>>,
   calls |-> [c \in 1..MaxCallers |-> IdleCall]]

InitHelpersIdle ==
  /\ titleMeta = [c \in Sends |-> NewTitleMeta]
  /\ fetcher = IdleFetcher
  /\ backend = IdleBackend

Init == InitApp /\ InitParserIdle /\ InitHelpersIdle

\* text || "(anexo)": the content of a user message is never empty
UserText == <<"u">>

NewMessage(id, role) ==
  [id |-> id, role |-> role, content |-> IF role = "user" THEN UserText ELSE <<>>,
   interrupted |-> FALSE, sources |-> <<>>, artifacts |-> <<>>]

\* a finally block that leaves isGenerating as it is
Finally_KeepsGenerating(g) == [g EXCEPT !.currentAbortController = 0, !.sendInFlight = FALSE]

\* the finally block of sendMessage
Finally(g) ==
  [g EXCEPT !.isGenerating = FALSE, !.currentAbortController = 0, !.sendInFlight = FALSE]

FinallySend(r) ==
  [r EXCEPT !.pc = "done", !.watchdog = "none", !.nframes = 0,
            !.sawAnyDelta = FALSE, !.protocolError = FALSE, !.sawTerminal = FALSE]

\* the guards of runChatFallback without the test of streamingMsg
FallbackGuardsPass_NoLiveCheck(g) == ~g.streamingMsg.hasFirstChunk

\* the guards of runChatFallback without the test of hasFirstChunk
FallbackGuardsPass_NoChunkCheck(g) == g.streamingMsg.live

\* the guards of runChatFallback
FallbackGuardsPass(g) == g.streamingMsg.live /\ ~g.streamingMsg.hasFirstChunk

\* runChatFallback up to its first await
FallbackPrefix(g) ==
  LET g1 == ensureThinkingVisible(setThinkingStatus(g))
  IN IF g1.currentAbortController # 0
     THEN [g1 EXCEPT !.aborted = @ \cup {g1.currentAbortController}]
     ELSE g1

\* sendMessage from its entry to its first await
SendMessage(hasFiles, streamingEnabled) ==
  /\ ~isGenerating
  /\ ~sendInFlight
  /\ nSends < MaxSends
  /\ LET s == nSends + 1
         g0 == [Cur EXCEPT !.sendInFlight = TRUE]
         creating == ~HasConv(g0, g0.selectedConversationId)
         convId == IF creating THEN s ELSE g0.selectedConversationId
         g1 == IF creating
               THEN renderThread([g0 EXCEPT !.conversations = (s :> <<>>) @@ @,
                                            !.selectedConversationId = s])
               ELSE g0
         g2 == [g1 EXCEPT !.conversations[convId] =
                  @ \o <<NewMessage(UserMsgId(s), "user"), NewMessage(AsstMsgId(s), "assistant")>>,
                          !.thread = @ \cup {UserMsgId(s), AsstMsgId(s)}]
         g3 == startStreamingIntoMessage(g2, convId, AsstMsgId(s))
         g4 == [g3 EXCEPT !.isGenerating = TRUE, !.currentAbortController = s]
         g5 == ensureThinkingVisible(setThinkingStatus(g4))
     IN /\ Commit(g5)
        /\ nSends' = s
        /\ sends' = [sends EXCEPT ![s] =
             [IdleSend EXCEPT !.conv = convId,
                              !.pc = IF ~streamingEnabled THEN "chatOnce"
                                     ELSE IF hasFiles THEN "upload" ELSE "connect"]]

\* the catch block for an error that is not an AbortError
CatchOther(s, g) ==
  IF FallbackGuardsPass(g)
  THEN /\ Commit(FallbackPrefix(g))
       /\ sends' = [sends EXCEPT ![s].pc = "awaitFallback", ![s].watchdogFallback = TRUE,
                                 ![s].fbMain = "pending", ![s].fbStarted = @ + 1,
                                 ![s].nframes = 0]
  ELSE /\ Commit(g)
       /\ sends' = [sends EXCEPT ![s].pc = "catchHealth", ![s].nframes = 0]

\* a return or the end of the try block: finally runs
ReturnFrom(s, g) ==
  /\ Commit(Finally(g))
  /\ sends' = [sends EXCEPT ![s] = FinallySend(@)]

\* await uploadFilesForChat / refreshDownloadsList
UploadDone(s, ok) ==
  /\ sends[s].pc = "upload"
  /\ s \notin aborted
  /\ UNCHANGED nSends
  /\ IF ok
     THEN /\ Commit(ensureThinkingVisible(setThinkingStatus(Cur)))
          /\ sends' = [sends EXCEPT ![s].pc = "connect"]
     ELSE ReturnFrom(s, finalizeStreaming(Cur, FALSE, ErrUpload))

\* await fetchWithRetry(/chat) with streaming switched off
ChatOnceDone(s, kind, raw) ==
  /\ sends[s].pc = "chatOnce"
  /\ s \notin aborted
  /\ UNCHANGED nSends
  /\ CASE kind = "http" -> ReturnFrom(s, finalizeStreaming(Cur, FALSE, ErrServerStatus))
       [] kind = "reply" ->
            IF Trim(raw) = <<>>
            THEN ReturnFrom(s, finalizeStreaming(Cur, FALSE, ErrEmptyReply))
            ELSE ReturnFrom(s, finalizeStreaming(
                   SetMsgContent(Cur, sends[s].conv, AsstMsgId(s), Trim(raw)), TRUE, <<>>))
       [] kind = "neterr" -> CatchOther(s, Cur)

\* await fetchWithRetry(/chat/stream)
ConnectDone(s, kind, text) ==
  /\ sends[s].pc = "connect"
  /\ s \notin aborted
  /\ UNCHANGED nSends
  /\ CASE kind = "neterr" -> CatchOther(s, Cur)
       [] kind = "http" -> ReturnFrom(s, finalizeStreaming(Cur, FALSE, ErrServerStatus))
       [] kind = "noreader" ->
            IF Trim(text) = <<>>
            THEN ReturnFrom(s, finalizeStreaming(Cur, FALSE, ErrNoStream))
            ELSE ReturnFrom(s, finalizeStreaming(streamAppend(Cur, text), TRUE, <<>>))
       [] kind \in {"sse", "text"} ->
            /\ Commit(Cur)
            /\ sends' = [sends EXCEPT ![s].pc = IF kind = "sse" THEN "reading" ELSE "readingText",
                                      ![s].watchdog = "armed"]

\* ----------------------------------------------------- the stream handlers
\* onStatus with phase thinking / tool
OnStatusThinking(g) == ensureThinkingVisible(setThinkingStatus(g))

\* onError finalizing as ok, so that the received text is kept
OnError_KeepsText(g, message) == finalizeStreaming(g, TRUE, <<>>)

\* onError, and onStatus with phase error
OnError(g, message) ==
  finalizeStreaming(g, FALSE, IF message # <<>> THEN message ELSE ErrStreaming)

\* onDone
OnDone(g) == finalizeStreaming(g, TRUE, <<>>)

\* readSseStream hands one parsed event to its handler
SseDelta(s) ==
  /\ sends[s].pc = "reading"
  /\ s \notin aborted
  /\ sends[s].nframes < MaxFrames
  /\ \E text \in DeltaTexts(s, sends[s].nframes + 1) : Commit(streamAppend(Cur, text))
  /\ sends' = [sends EXCEPT ![s].nframes = @ + 1, ![s].sawAnyDelta = TRUE]
  /\ UNCHANGED nSends

SseStatusThinking(s) ==
  /\ sends[s].pc = "reading"
  /\ s \notin aborted
  /\ sends[s].nframes < MaxFrames
  /\ Commit(OnStatusThinking(Cur))
  /\ sends' = [sends EXCEPT ![s].nframes = @ + 1]
  /\ UNCHANGED nSends

\* onStatus with phase done
SseStatusDone(s) ==
  /\ sends[s].pc = "reading"
  /\ s \notin aborted
  /\ sends[s].nframes < MaxFrames
  /\ UNCHANGED nSends
  /\ IF ~(streamingMsg.live /\ streamingMsg.hasFirstChunk)
     THEN /\ Commit(Cur)
          /\ sends' = [sends EXCEPT ![s].nframes = @ + 1, ![s].emptyStreamDone = TRUE,
                                    ![s].sawTerminal = TRUE]
     ELSE /\ Commit(finalizeStreaming(Cur, TRUE, <<>>))
          /\ sends' = [sends EXCEPT ![s].nframes = @ + 1, ![s].sawTerminal = TRUE]

SseError(s, message) ==
  /\ sends[s].pc = "reading"
  /\ s \notin aborted
  /\ sends[s].nframes < MaxFrames
  /\ Commit(OnError(Cur, message))
  /\ sends' = [sends EXCEPT ![s].nframes = @ + 1, ![s].protocolError = TRUE,
                            ![s].sawTerminal = TRUE]
  /\ UNCHANGED nSends

\* the two frames that end a stream: `event: done` with data {}, and data [DONE]
DoneVias == {"event", "sentinel"}

\* readSseStream at the blank line that closes a frame with these data lines
FrameParser(ev, lines) == [NewParser EXCEPT !.event = ev, !.dataLines = lines]

\* what emit makes of a frame that ends the stream
DoneFrame(via) ==
  IF via = "sentinel"
  THEN emit(FrameParser(NameMessage, <<DoneSentinel>>))
  ELSE emit(FrameParser(NameDone, <<EmptyObject.json>>))

\* the handler sendMessage gave readSseStream for this call
HandleCall(g, call) ==
  CASE call.handler = "onDone" -> OnDone(g)
    [] call.handler = "onDelta" -> streamAppend(g, call.arg)
    [] OTHER -> g

RECURSIVE HandleCalls(_, _)
HandleCalls(g, calls) ==
  IF calls = <<>> THEN g ELSE HandleCalls(HandleCall(g, Head(calls)), Tail(calls))

SseDone(s, via) ==
  /\ sends[s].pc = "reading"
  /\ s \notin aborted
  /\ sends[s].nframes < MaxFrames
  /\ Commit(HandleCalls(Cur, DoneFrame(via).calls))
  /\ sends' = [sends EXCEPT ![s].nframes = @ + 1,
                            ![s].sawTerminal = @ \/ DoneFrame(via).sawTerminal]
  /\ UNCHANGED nSends

\* one non-empty chunk of a stream that is not text/event-stream
TextChunk(s) ==
  /\ sends[s].pc = "readingText"
  /\ s \notin aborted
  /\ sends[s].nframes < MaxFrames
  /\ \E text \in DeltaTexts(s, sends[s].nframes + 1) :
       text # <<>> /\ Commit(streamAppend(Cur, text))
  /\ sends' = [sends EXCEPT ![s].nframes = @ + 1, ![s].sawAnyDelta = TRUE]
  /\ UNCHANGED nSends

\* what sendMessage does after the read loop has returned
PostLoop(s, g) ==
  LET r == [sends[s] EXCEPT !.loopReturned = TRUE]
  IN IF r.watchdogFallback
     THEN /\ Commit(Finally(g))
          /\ sends' = [sends EXCEPT ![s] = FinallySend(r)]
     ELSE IF r.emptyStreamDone
     THEN IF FallbackGuardsPass(g)
          THEN /\ Commit(FallbackPrefix(g))
               /\ sends' = [sends EXCEPT ![s] =
                    [r EXCEPT !.pc = "awaitFallback", !.watchdogFallback = TRUE,
                              !.fbMain = "pending", !.fbStarted = @ + 1, !.nframes = 0]]
          ELSE /\ Commit(Finally(g))
               /\ sends' = [sends EXCEPT ![s] = FinallySend(r)]
     ELSE LET hasAny == Trim(MsgContent(g, r.conv, AsstMsgId(s))) # <<>>
              g1 == IF g.streamingMsg.live /\ g.streamingMsg.convId = r.conv
                    THEN IF hasAny
                         THEN finalizeStreamingInterrupted(g)
                         ELSE finalizeStreaming(g, FALSE, ErrStreamEnded)
                    ELSE g
          IN /\ Commit(Finally(g1))
             /\ sends' = [sends EXCEPT ![s] = FinallySend(r)]

\* reader.read() reports done
StreamEnd(s) ==
  /\ sends[s].pc \in {"reading", "readingText"}
  /\ s \notin aborted
  /\ UNCHANGED nSends
  /\ IF sends[s].pc = "reading"
     THEN PostLoop(s, Cur)
     ELSE PostLoop(s, finalizeStreaming(Cur, TRUE, <<>>))

\* reader.read() rejects with an error that is not an AbortError
StreamFail(s) ==
  /\ sends[s].pc \in {"reading", "readingText"}
  /\ s \notin aborted
  /\ UNCHANGED nSends
  /\ CatchOther(s, Cur)

\* the AbortError catch without the test of watchdogFallback
AbortError_AlwaysInterrupts(s) ==
  /\ sends[s].pc \in {"upload", "chatOnce", "connect", "reading", "readingText"}
  /\ s \in aborted
  /\ UNCHANGED nSends
  /\ IF sends[s].pc = "upload"
     THEN ReturnFrom(s, finalizeStreaming(Cur, FALSE, ErrUpload))
     ELSE ReturnFrom(s, finalizeStreamingInterrupted(Cur))

\* the pending fetch or read of an aborted controller rejects with AbortError
AbortError(s) ==
  /\ sends[s].pc \in {"upload", "chatOnce", "connect", "reading", "readingText"}
  /\ s \in aborted
  /\ UNCHANGED nSends
  /\ IF sends[s].pc = "upload"
     THEN ReturnFrom(s, finalizeStreaming(Cur, FALSE, ErrUpload))
     ELSE IF sends[s].watchdogFallback
     THEN ReturnFrom(s, Cur)
     ELSE ReturnFrom(s, finalizeStreamingInterrupted(Cur))

\* catch block, after runChatFallback returned false: await ensureBackendBaseOnline
CatchHealthDone(s) ==
  /\ sends[s].pc = "catchHealth"
  /\ UNCHANGED nSends
  /\ ReturnFrom(s, finalizeStreaming(Cur, FALSE, ErrConnect))

\* ---------------------------------------------- watchdog, runChatFallback
\* the 12 s timer set before the read loop expires
WatchdogFire(s) ==
  /\ sends[s].watchdog = "armed"
  /\ UNCHANGED nSends
  /\ IF FallbackGuardsPass(Cur)
     THEN /\ Commit(FallbackPrefix(Cur))
          /\ sends' = [sends EXCEPT ![s].watchdog = "fired", ![s].watchdogFallback = TRUE,
                                    ![s].fbWd = "pending", ![s].fbStarted = @ + 1]
     ELSE /\ Commit(Cur)
          /\ sends' = [sends EXCEPT ![s].watchdog = "fired"]

Stage(s, which) == IF which = "main" THEN sends[s].fbMain ELSE sends[s].fbWd

SetStage(r, which, st) ==
  IF which = "main" THEN [r EXCEPT !.fbMain = st] ELSE [r EXCEPT !.fbWd = st]

\* runChatFallback returned true: a fallback awaited by sendMessage lets it return
FallbackReturn(s, which, g, reply) ==
  IF which = "main"
  THEN /\ Commit(Finally(g))
       /\ sends' = [sends EXCEPT ![s] =
            [FinallySend(SetStage(@, which, "end")) EXCEPT !.fbReply = reply]]
  ELSE /\ Commit(g)
       /\ sends' = [sends EXCEPT ![s] = [SetStage(@, which, "end") EXCEPT !.fbReply = reply]]

\* FallbackReply without the write of the reply into the message
FallbackReply_NoSplice(s, which, raw) ==
  /\ Stage(s, which) = "pending"
  /\ UNCHANGED nSends
  /\ IF Trim(raw) = <<>>
     THEN FallbackReturn(s, which, finalizeStreaming(Cur, FALSE, ErrFallbackEmpty), <<>>)
     ELSE FallbackReturn(s, which, finalizeStreaming(Cur, TRUE, <<>>), Trim(raw))

\* runChatFallback after its awaits (ensureBackendBaseOnline, doPost, r2.json):
\* POST /chat answered with a JSON body
FallbackReply(s, which, raw) ==
  /\ Stage(s, which) = "pending"
  /\ UNCHANGED nSends
  /\ IF Trim(raw) = <<>>
     THEN FallbackReturn(s, which, finalizeStreaming(Cur, FALSE, ErrFallbackEmpty), <<>>)
     ELSE FallbackReturn(s, which, finalizeStreaming(
            SetMsgContent(Cur, sends[s].conv, AsstMsgId(s), Trim(raw)), TRUE, <<>>), Trim(raw))

\* POST /chat answered with a status that is not 2xx
FallbackHttpError(s, which) ==
  /\ Stage(s, which) = "pending"
  /\ UNCHANGED nSends
  /\ FallbackReturn(s, which, finalizeStreaming(Cur, FALSE, ErrFallbackStatus), <<>>)

\* POST /chat failed, also after the retry: the catch of runChatFallback
FallbackFail(s, which) ==
  /\ Stage(s, which) = "pending"
  /\ UNCHANGED nSends
  /\ FallbackReturn(s, which, finalizeStreaming(Cur, FALSE, ErrFallbackFailed), <<>>)

\* ------------------------------------------------------- frame and user
\* the browser runs the requested animation frame
AnimationFrame ==
  /\ rafScheduled > 0
  /\ Commit([RafCallback(Cur) EXCEPT !.rafScheduled = @ - 1])
  /\ UNCHANGED <<sends, nSends>>

stopGenerating(g) ==
  LET g1 == IF g.currentAbortController # 0
            THEN [g EXCEPT !.aborted = @ \cup {g.currentAbortController}]
            ELSE g
      g2 == finalizeStreamingInterrupted(g1)
  IN [g2 EXCEPT !.isGenerating = FALSE, !.currentAbortController = 0]

\* click on the send button while it shows "stop"
StopGenerating ==
  /\ isGenerating
  /\ Commit(stopGenerating(Cur))
  /\ UNCHANGED <<sends, nSends>>

GoHome ==
  /\ selectedConversationId # NoId
  /\ LET g1 == IF isGenerating THEN stopGenerating(Cur) ELSE Cur
     IN Commit(renderThread([g1 EXCEPT !.selectedConversationId = NoId]))
  /\ UNCHANGED <<sends, nSends>>

SelectConversation(id) ==
  /\ id \in DOMAIN conversations
  /\ id # selectedConversationId
  /\ Commit(renderThread([Cur EXCEPT !.selectedConversationId = id]))
  /\ UNCHANGED <<sends, nSends>>

DeleteConversation(id) ==
  /\ id \in DOMAIN conversations
  /\ LET g1 == [Cur EXCEPT !.conversations = [c \in DOMAIN @ \ {id} |-> @[c]],
                           !.selectedConversationId = IF @ = id THEN NoId ELSE @]
     IN Commit(renderThread(g1))
  /\ UNCHANGED <<sends, nSends>>

Whichs == {"main", "wd"}

Next ==
  \/ \E f \in BOOLEAN, e \in BOOLEAN : SendMessage(f, e)
  \/ \E s \in Sends, ok \in BOOLEAN : UploadDone(s, ok)
  \/ \E s \in Sends, k \in {"http", "reply", "neterr"}, raw \in Replies : ChatOnceDone(s, k, raw)
  \/ \E s \in Sends, k \in {"neterr", "http", "noreader", "sse", "text"}, t \in DeltaTexts(1, 1) :
       ConnectDone(s, k, t)
  \/ \E s \in Sends : SseDelta(s)
  \/ \E s \in Sends : SseStatusThinking(s)
  \/ \E s \in Sends : SseStatusDone(s)
  \/ \E s \in Sends, m \in ServerMessages : SseError(s, m)
  \/ \E s \in Sends, via \in DoneVias : SseDone(s, via)
  \/ \E s \in Sends : TextChunk(s)
  \/ \E s \in Sends : StreamEnd(s)
  \/ \E s \in Sends : StreamFail(s)
  \/ \E s \in Sends : AbortError(s)
  \/ \E s \in Sends : CatchHealthDone(s)
  \/ \E s \in Sends : WatchdogFire(s)
  \/ \E s \in Sends, w \in Whichs, raw \in Replies : FallbackReply(s, w, raw)
  \/ \E s \in Sends, w \in Whichs : FallbackHttpError(s, w)
  \/ \E s \in Sends, w \in Whichs : FallbackFail(s, w)
  \/ AnimationFrame
  \/ StopGenerating
  \/ GoHome
  \/ \E id \in Sends : SelectConversation(id)
  \/ \E id \in Sends : DeleteConversation(id)

Spec == Init /\ [][Next]_vars

\* ------------------------------------------------------------- properties
\* the assistant message of send s, as the closure of that send names it
ContentOf(s) == MsgContent(Cur, sends[s].conv, AsstMsgId(s))
ExistsMsgOf(s) == HasMsg(Cur, sends[s].conv, AsstMsgId(s))
LiveFor(s) == streamingMsg.live /\ streamingMsg.msgId = AsstMsgId(s)
FallbackPending(s) == sends[s].fbMain = "pending" \/ sends[s].fbWd = "pending"
\* sendMessage has returned and nothing it started is still running
Quiescent(s) == sends[s].pc = "done" /\ ~FallbackPending(s)
Finalized(s) == outcome[AsstMsgId(s)] # "none"
\* stopGenerating is the only step that clears isGenerating and leaves sendInFlight set
IsStopStep == isGenerating /\ ~isGenerating' /\ sendInFlight'
\* a run of runChatFallback of send s ends in this step
FallbackEnds(s) ==
  \/ sends[s].fbMain = "pending" /\ sends'[s].fbMain = "end"
  \/ sends[s].fbWd = "pending" /\ sends'[s].fbWd = "end"

\* C1: once the session of a message has been finalized, no later step changes
\* the content of that message.
C1_FinalizedContentFrozen ==
  [][\A s \in Sends :
       (Finalized(s) /\ ExistsMsgOf(s) /\ ExistsMsgOf(s)') => ContentOf(s)' = ContentOf(s)]_vars

\* C2: when a session is finalized as ok or interrupted, every text that was
\* passed to streamAppend during the session is in the message content.
C2_NoAppendedTextLost ==
  [][\A s \in Sends :
       (LiveFor(s) /\ Trim(appended) # <<>> /\ outcome'[AsstMsgId(s)] \in {"ok", "interrupted"})
         => IsSuffix(appended, ContentOf(s)')]_vars

\* C3: at most one run of runChatFallback gets past its guards per send.
C3_AtMostOneFallback == \A s \in Sends : sends[s].fbStarted <= 1

\* C4: a sendMessage call is accepted only when every earlier send has returned,
\* the fallback it started has ended and its session is no longer live.
C4_SendsSerialized ==
  [][nSends' # nSends => \A s \in 1..nSends : Quiescent(s) /\ ~LiveFor(s)]_vars

\* C5: the end of a fallback of one send leaves the live session of another send
\* untouched.
C5_FallbackStaysInItsSend ==
  [][\A s \in Sends :
       (FallbackEnds(s) /\ streamingMsg.live /\ ~LiveFor(s)) => streamingMsg' = streamingMsg]_vars

\* C6: when sendMessage has returned and no fallback of it is pending, its
\* session has been finalized (as ok, error or interrupted, or released because
\* the conversation is gone).
C6_ReturnedSendIsFinalized == \A s \in Sends : Quiescent(s) => Finalized(s)

\* C7: when status done arrived with no content and the read loop has returned,
\* a fallback has been started for that send.
C7_EmptyDoneStartsFallback ==
  \A s \in Sends :
    (sends[s].emptyStreamDone /\ sends[s].loopReturned) => sends[s].fbStarted >= 1

\* C8: the content of a message whose session was finalized is not empty.
C8_FinalContentNonEmpty ==
  \A s \in Sends : (Finalized(s) /\ ExistsMsgOf(s)) => ContentOf(s) # <<>>

\* C9: stopGenerating on a live session that received text leaves the message
\* interrupted with exactly that text, and the content of an interrupted message
\* does not change afterwards.
C9_CancelKeepsPartialText ==
  [][\A s \in Sends :
       /\ (IsStopStep /\ LiveFor(s) /\ ExistsMsgOf(s) /\ Trim(appended) # <<>>)
            => /\ outcome'[AsstMsgId(s)] = "interrupted"
               /\ ContentOf(s)' = appended
       /\ (outcome[AsstMsgId(s)] = "interrupted" /\ ExistsMsgOf(s) /\ ExistsMsgOf(s)')
            => ContentOf(s)' = ContentOf(s)]_vars

LoopReturns(s) == sends[s].pc = "reading" /\ sends'[s].loopReturned
\* the session of send s is finalized in this step with this outcome
FinalizedAs(s, how) == LiveFor(s) /\ outcome'[AsstMsgId(s)] = how
\* persistState ran in the finalization of the session of send s
Persisted(s) == outcome[AsstMsgId(s)] \in {"ok", "error", "interrupted"}
\* texts that report a failed transport of the streaming request
TransportErrors == {ErrServerStatus, ErrConnect}

\* C11: when the read loop of an SSE stream returns with the session live, no
\* terminal status seen and no fallback started, the session is finalized as
\* interrupted if text with content was received (flushed or still buffered),
\* and as error if none was.
C11_EndOfStreamKeepsReceivedText ==
  [][\A s \in Sends :
       (LoopReturns(s) /\ LiveFor(s) /\ ExistsMsgOf(s)
          /\ ~sends[s].emptyStreamDone /\ ~sends[s].watchdogFallback)
         => outcome'[AsstMsgId(s)] =
              IF Trim(appended) # <<>> THEN "interrupted" ELSE "error"]_vars

\* C12: a transport error text of the streaming request is written into the
\* message only after a fallback was attempted for that send.
C12_TransportErrorTriesFallback ==
  [][\A s \in Sends :
       (sends[s].pc \in {"connect", "catchHealth"} /\ FinalizedAs(s, "error")
          /\ ExistsMsgOf(s)' /\ ContentOf(s)' \in TransportErrors)
         => sends[s].fbStarted >= 1]_vars

\* C13: a protocol error received while the session is live finalizes it as
\* error, and the message content is the server message or the default text,
\* whatever text had been received.
C13_ProtocolErrorReplacesContent ==
  [][\A s \in Sends, m \in ServerMessages :
       (SseError(s, m) /\ LiveFor(s) /\ ExistsMsgOf(s))
         => /\ ~streamingMsg'.live
            /\ outcome'[AsstMsgId(s)] = "error"
            /\ ContentOf(s)' = IF m # <<>> THEN m ELSE ErrStreaming]_vars

\* a protocol error arrived after text had been received, and replaced it
C13_Witness ==
  \E s \in Sends :
    /\ sends[s].protocolError
    /\ sends[s].sawAnyDelta
    /\ outcome[AsstMsgId(s)] = "error"
    /\ ExistsMsgOf(s)
    /\ ContentOf(s) = <<"m">>

\* C14: once a protocol error has been received by a send, no run of
\* runChatFallback gets past its guards for that send.
C14_NoFallbackAfterProtocolError ==
  [][\A s \in Sends :
       sends[s].protocolError => sends'[s].fbStarted = sends[s].fbStarted]_vars

\* status done with no content, then a protocol error, then the watchdog expired:
\* no fallback was started
C14_Witness ==
  \E s \in Sends :
    /\ sends[s].protocolError
    /\ sends[s].emptyStreamDone
    /\ sends[s].watchdog = "fired"
    /\ sends[s].fbStarted = 0

\* C15: the AbortError that follows the abort made by runChatFallback leaves the
\* session as it is: it is not finalized and no message is marked interrupted.
C15_RecoveryAbortDoesNotInterrupt ==
  [][\A s \in Sends :
       (sends[s].watchdogFallback /\ s \in aborted
          /\ sends[s].pc \in {"connect", "reading", "readingText"} /\ sends'[s].pc = "done")
         => /\ streamingMsg' = streamingMsg
            /\ conversations' = conversations
            /\ outcome' = outcome]_vars

\* sendMessage returned through the AbortError of a recovery abort and the
\* session is still live, waiting for the fallback
C15_Witness ==
  \E s \in Sends :
    /\ sends[s].pc = "done"
    /\ sends[s].fbWd = "pending"
    /\ s \in aborted
    /\ LiveFor(s)
    /\ outcome[AsstMsgId(s)] = "none"

\* C16: an expiry of the watchdog after a delta was received aborts nothing and
\* starts no fallback.
C16_WatchdogIdleAfterFirstDelta ==
  [][\A s \in Sends :
       (sends[s].sawAnyDelta /\ sends[s].watchdog = "armed" /\ sends'[s].watchdog = "fired")
         => /\ aborted' = aborted
            /\ sends'[s].fbStarted = sends[s].fbStarted
            /\ sends'[s].watchdogFallback = sends[s].watchdogFallback]_vars

\* the watchdog expired on a live stream that had received a delta, and the
\* stream goes on
C16_Witness ==
  \E s \in Sends :
    /\ sends[s].sawAnyDelta
    /\ sends[s].watchdog = "fired"
    /\ sends[s].pc = "reading"
    /\ s \notin aborted
    /\ LiveFor(s)
    /\ sends[s].fbStarted = 0

FrameStep(s) == sends[s].pc = "reading" /\ sends'[s].nframes = sends[s].nframes + 1

\* C21: once a terminal event of a stream has been parsed, no later event of that
\* stream changes the session, its buffer or any message.
C21_NoEffectAfterTerminal ==
  [][\A s \in Sends :
       (sends[s].sawTerminal /\ FrameStep(s))
         => UNCHANGED <<conversations, streamingMsg, streamBuffer, outcome>>]_vars

\* ------------------------------------------------ cancel, sink, scheduling
\* C25: stopGenerating on a live session that received no text (none, or
\* whitespace only) finalizes it as interrupted and sets the message content to
\* the placeholder text.
C25_CancelWithoutContentSetsPlaceholder ==
  [][\A s \in Sends :
       (IsStopStep /\ LiveFor(s) /\ ExistsMsgOf(s) /\ Trim(appended) = <<>>)
         => /\ ~streamingMsg'.live
            /\ outcome'[AsstMsgId(s)] = "interrupted"
            /\ conversations'[sends[s].conv][MsgIndex(Cur, sends[s].conv, AsstMsgId(s))].interrupted
            /\ ContentOf(s)' = PlaceholderInterrupted]_vars

\* a send was cancelled before any delta arrived and its message holds the
\* placeholder
C25_Witness ==
  \E s \in Sends :
    /\ s \in aborted
    /\ ~sends[s].sawAnyDelta
    /\ outcome[AsstMsgId(s)] = "interrupted"
    /\ ExistsMsgOf(s)
    /\ ContentOf(s) = PlaceholderInterrupted

\* C26: while a session is live and its sink is bound, the text of the sink's
\* text node is the message content (both lack only what is still in
\* streamBuffer), also after the thread was rebuilt and the sink bound again.
C26_SinkEqualsContent ==
  (streamingMsg.live /\ streamingMsg.bound)
    => streamingMsg.textNode = MsgContent(Cur, streamingMsg.convId, streamingMsg.msgId)

\* text was received, the thread was rebuilt (the buffered text was dropped),
\* and later text was appended and flushed through a sink bound again
C26_Witness ==
  /\ streamingMsg.live
  /\ streamingMsg.bound
  /\ streamBuffer = <<>>
  /\ streamingMsg.textNode # <<>>
  /\ streamingMsg.textNode = MsgContent(Cur, streamingMsg.convId, streamingMsg.msgId)
  /\ Len(appended) > Len(streamingMsg.textNode)

\* C27: at most one animation-frame callback is pending, and streamFlushRaf is
\* non-zero exactly when one is.
C27_AtMostOneFlushScheduled ==
  /\ rafScheduled <= 1
  /\ (streamFlushRaf # 0) <=> (rafScheduled = 1)

\* two texts were appended between two frames and one callback is pending
C27_Witness ==
  /\ rafScheduled = 1
  /\ streamFlushRaf # 0
  /\ Len(streamBuffer) >= 2

\* C22: a frame whose data is [DONE] changes the state exactly as an explicit
\* done event does, whatever the state of the session when it arrives.
C22_SentinelEqualsDoneEvent ==
  [][\A s \in Sends : SseDone(s, "sentinel") <=> SseDone(s, "event")]_vars

\* a done frame was the first frame of a stream (a status done would have set
\* emptyStreamDone): the session was finalized ok
C22_Witness ==
  \E s \in Sends :
    /\ sends[s].pc = "reading"
    /\ sends[s].nframes = 1
    /\ sends[s].sawTerminal
    /\ ~sends[s].protocolError
    /\ ~sends[s].emptyStreamDone
    /\ ~streamingMsg.live
    /\ outcome[AsstMsgId(s)] = "ok"

\* C37: whenever a sendMessage call that got past its guards returns, by
\* whatever path, the step leaves isGenerating false, sendInFlight false and
\* currentAbortController null, so the guards of the next send pass.
C37_SendEndsIdle ==
  [][\A s \in Sends :
       (sends[s].pc \notin {"idle", "done"} /\ sends'[s].pc = "done")
         => /\ ~isGenerating'
            /\ ~sendInFlight'
            /\ currentAbortController' = 0]_vars

\* a send returned after its fallback ended in an error, and the composer is idle
C37_Witness ==
  \E s \in Sends :
    /\ sends[s].pc = "done"
    /\ sends[s].fbStarted >= 1
    /\ outcome[AsstMsgId(s)] = "error"
    /\ ~isGenerating
    /\ ~sendInFlight
    /\ currentAbortController = 0

\* ------------------------------------------------- readSseStream, chunked
\* lines a response body is made of, and the ways a line can end
BodyLines ==
  {FieldData \o <<"x">>, FieldData \o <<"{", "}">>, FieldData \o DoneSentinel,
   FieldEvent \o NameDone, <<>>}
LineEnds == {<<"\n">>, <<"\r", "\n">>}
\* what can follow the last complete line: nothing, or a line cut off by the end
BodyTails == {<<>>, FieldData \o <<"x">>}

RECURSIVE Flatten(_)
Flatten(ls) == IF ls = <<>> THEN <<>> ELSE Head(ls) \o Flatten(Tail(ls))

Bodies ==
  {Flatten(ls) \o t :
     ls \in UNION {[1..n -> {l \o e : l \in BodyLines, e \in LineEnds}] : n \in 0..MaxLines},
     t \in BodyTails}

ParserInit ==
  /\ InitApp
  /\ InitHelpersIdle
  /\ stream \in Bodies
  /\ frame = NoFrame
  /\ pos = 0
  /\ parser = NewParser
  /\ readerDone = FALSE
  /\ boundary = "none"

\* the chunk boundary at position q of the body falls between \r and \n
CutsCRLF(body, q) == q >= 1 /\ q < Len(body) /\ body[q] = "\r" /\ body[q + 1] = "\n"

\* reader.read() delivers the next n characters of the body
ReadChunk(n) ==
  /\ ~readerDone
  /\ pos + n <= Len(stream)
  /\ parser' = ReadChunkInto(parser, SubSeq(stream, pos + 1, pos + n))
  /\ pos' = pos + n
  /\ boundary' = IF pos + n = Len(stream) \/ boundary = "crlf" THEN boundary
                 ELSE IF CutsCRLF(stream, pos + n) THEN "crlf" ELSE "other"
  /\ UNCHANGED <<stream, readerDone, frame, appVars, helperVars>>

\* reader.read() reports done: the loop is left, the last emit runs
ReadDone ==
  /\ ~readerDone
  /\ pos = Len(stream)
  /\ parser' = emit(parser)
  /\ readerDone' = TRUE
  /\ UNCHANGED <<stream, pos, boundary, frame, appVars, helperVars>>

ParserNext ==
  \/ \E n \in 1..(Len(stream) - pos) : ReadChunk(n)
  \/ ReadDone

ParserSpec == ParserInit /\ [][ParserNext]_vars

\* C20: however the body is cut into chunks, the handler calls made so far are
\* an initial part of the calls readSseStream makes when it is fed the body as
\* one chunk, and when it returns they are the same calls and the same result.
C20_ChunkingDoesNotChangeCalls ==
  /\ IsPrefix(parser.calls, SingleChunk(stream).calls)
  /\ readerDone => /\ parser.calls = SingleChunk(stream).calls
                   /\ parser.sawTerminal = SingleChunk(stream).sawTerminal

\* a body cut between \r and \n was read to its end and made handler calls
C20_Witness ==
  /\ readerDone
  /\ boundary = "crlf"
  /\ Len(parser.calls) >= 2

\* the body with its last line ended and its last frame closed by a blank line
ClosedBody(body) == body \o <<"\n", "\n">>

\* C30: when readSseStream returns, the handler calls it made are those the same
\* body makes with its last line ended and its last frame closed: data left
\* unterminated at the end of the stream yields its event, once.
C30_UnterminatedDataIsEmitted ==
  readerDone => parser.calls = SingleChunk(ClosedBody(stream)).calls

\* the body has no `data:` line
DataFree(body) ==
  \A i \in 1..(Len(body) - Len(FieldData) + 1) :
    SubSeq(body, i, i + Len(FieldData) - 1) # FieldData

\* C34: a body without any `data:` line (blank lines, `event:` lines, `event:
\* done` among them) makes no handler call and sets no terminal flag, while it is
\* read and when readSseStream returns.
C34_FrameWithoutDataCallsNothing ==
  DataFree(stream) => parser.calls = <<>> /\ ~parser.sawTerminal

\* `event: done` and a blank line were read to the end without a call
C34_Witness ==
  /\ readerDone
  /\ stream = FieldEvent \o NameDone \o <<"\n", "\n">>
  /\ parser.calls = <<>>
  /\ ~parser.sawTerminal

\* ------------------------------------------------ readSseStream, one frame
\* A body of one frame: an optional `event:` line, one `data:` line made of a
\* leading value and the text after it, and the blank line.
FrameEvents == {<<>>, NameDelta}
FramePrefixes ==
  {EmptyObject.json, JsonTypeDelta, JsonTextT, JsonTypeDeltaTextT, JsonTextBrace, JsonArray,
   NotJson}
FrameRests == {<<>>, <<"H">>, <<"H", " ", "w">>, <<" ", "H">>, <<" ">>}

EventLine(ev) == IF ev = <<>> THEN <<>> ELSE FieldEvent \o ev \o <<"\n">>

FrameBody(f) == EventLine(f.event) \o FieldData \o f.prefix \o f.rest \o <<"\n", "\n">>

FrameInit ==
  /\ InitApp
  /\ InitHelpersIdle
  /\ frame \in [event : FrameEvents, prefix : FramePrefixes, rest : FrameRests]
  /\ stream = FrameBody(frame)
  /\ pos = 0
  /\ parser = NewParser
  /\ readerDone = FALSE
  /\ boundary = "none"

\* reader.read() delivers the whole body
ReadAll == pos = 0 /\ ReadChunk(Len(stream))

FrameNext ==
  \/ ReadAll
  \/ ReadDone

FrameSpec == FrameInit /\ [][FrameNext]_vars

\* the frame is dispatched by its name: `event: delta`, or a type field "delta"
NamedDelta(f) == f.event = NameDelta \/ f.prefix \in {JsonTypeDelta, JsonTypeDeltaTextT}

\* C23: a frame named delta whose data is a balanced JSON value followed by
\* further text makes one onDelta call, and its text is that further text; a text
\* field of the JSON value is not used.
C23_RestAfterJsonIsDeltaText ==
  (pos = Len(stream) /\ NamedDelta(frame) /\ frame.rest # <<>>)
    => parser.calls = <<[handler |-> "onDelta", arg |-> frame.rest]>>

\* ------------------------------------------------- the delta buffer alone
\* A live, bound session on an empty assistant message, as sendMessage leaves it
\* when the read loop starts.
BufferInit ==
  /\ conversations = (1 :> <<NewMessage(UserMsgId(1), "user"), NewMessage(AsstMsgId(1), "assistant")>>)
  /\ selectedConversationId = 1
  /\ thread = {UserMsgId(1), AsstMsgId(1)}
  /\ streamingMsg = NewStreamingMsg(1, AsstMsgId(1))
  /\ streamBuffer = <<>>
  /\ streamFlushRaf = 0
  /\ rafScheduled = 0
  /\ isGenerating = TRUE
  /\ sendInFlight = TRUE
  /\ currentAbortController = 1
  /\ aborted = {}
  /\ sends = [s \in Sends |-> IF s = 1 THEN [IdleSend EXCEPT !.pc = "reading", !.conv = 1]
                                       ELSE IdleSend]
  /\ nSends = 1
  /\ outcome = [m \in AsstIds |-> "none"]
  /\ appended = <<>>
  /\ titleTimers = [c \in Sends |-> 0]
  /\ InitParserIdle
  /\ InitHelpersIdle

\* streamAppend(text); pc names the last operation applied to the buffer
BufAppend ==
  /\ sends[1].nframes < MaxAppends
  /\ \E text \in DeltaTexts(1, sends[1].nframes + 1) : Commit(streamAppend(Cur, text))
  /\ sends' = [sends EXCEPT ![1].nframes = @ + 1, ![1].pc = "appended"]
  /\ UNCHANGED nSends

\* flushStreamNow()
BufFlushNow ==
  /\ Commit(flushStreamNow(Cur))
  /\ sends' = [sends EXCEPT ![1].pc = IF streamBuffer # <<>> THEN "flushed" ELSE "flushedEmpty"]
  /\ UNCHANGED nSends

BufferNext ==
  \/ BufAppend
  \/ AnimationFrame
  \/ BufFlushNow

BufferSpec == BufferInit /\ [][BufferNext]_vars

\* C18: under streamAppend, animation-frame flushes and flushStreamNow the
\* message content is at every moment an initial part of the concatenation of the
\* appended texts in their order.
C18_ContentIsPrefixOfDeltas == IsPrefix(ContentOf(1), appended)

\* text was flushed into the message and later text is waiting in the buffer
C18_Witness ==
  /\ ContentOf(1) # <<>>
  /\ streamBuffer # <<>>
  /\ Len(appended) > Len(ContentOf(1))

\* C19: after flushStreamNow the message content is the concatenation of all
\* texts appended so far, in order, and streamBuffer is empty.
C19_FlushNowLosesNothing ==
  [][BufFlushNow => (ContentOf(1)' = appended /\ streamBuffer' = <<>>)]_vars

\* flushStreamNow found text in the buffer, after at least two appends with text
C19_Witness ==
  /\ sends[1].pc = "flushed"
  /\ Len(appended) >= 2
  /\ ContentOf(1) = appended
  /\ streamBuffer = <<>>

\* ------------------------------------------------ sources and artifacts
\* The live session of the delta buffer above, with the events that carry results
\* and the three ways a session ends.
SourceLists == {<<"s1">>, <<"s1", "s2">>}
Artifacts == {"a1", "a2"}

\* onSources: setStreamingSources(p?.items)
OnSources(items) ==
  /\ Commit(setStreamingSources(Cur, items))
  /\ UNCHANGED <<sends, nSends>>

\* onArtifact: pushStreamingArtifact(a)
OnArtifact(a) ==
  /\ Len(streamingMsg.artifacts) < MaxArtifacts
  /\ Commit(pushStreamingArtifact(Cur, a))
  /\ UNCHANGED <<sends, nSends>>

\* onDone / onError
ResultsFinalize(ok) ==
  /\ Commit(finalizeStreaming(Cur, ok, <<>>))
  /\ UNCHANGED <<sends, nSends>>

\* stopGenerating
ResultsInterrupt ==
  /\ Commit(finalizeStreamingInterrupted(Cur))
  /\ UNCHANGED <<sends, nSends>>

ResultsNext ==
  \/ BufAppend
  \/ \E items \in SourceLists : OnSources(items)
  \/ \E a \in Artifacts : OnArtifact(a)
  \/ \E ok \in BOOLEAN : ResultsFinalize(ok)
  \/ ResultsInterrupt

ResultsSpec == BufferInit /\ [][ResultsNext]_vars

\* the assistant message of send s
MsgOf(s) == conversations[sends[s].conv][MsgIndex(Cur, sends[s].conv, AsstMsgId(s))]

\* C28: when the session is finalized, the message gets the artifacts received
\* during the session, in their order, and the sources list received.
C28_ResultsAttachedAtFinalize ==
  [][(LiveFor(1) /\ ExistsMsgOf(1) /\ ~streamingMsg'.live)
       => /\ MsgOf(1)'.artifacts = streamingMsg.artifacts
          /\ MsgOf(1)'.sources = streamingMsg.sources]_vars

\* ------------------------------------------------------------ fetchWithRetry
\* One call of fetchWithRetry.  pc is where the call is: in fetch ("fetching"),
\* in sleep ("sleeping"), or over ("returned", "thrown").  attempts, sleeps and
\* lastFailure are history: calls of fetch, calls of sleep, the last rejection.
\* retries = Math.max(0, Number(retry?.retries ?? 1))
Retries(input) == IF input < 0 THEN 0 ELSE input

RetryInit ==
  /\ InitApp
  /\ InitParserIdle
  /\ titleMeta = [c \in Sends |-> NewTitleMeta]
  /\ backend = IdleBackend
  /\ \E input \in -1..MaxRetries, a \in BOOLEAN :
       fetcher = [IdleFetcher EXCEPT !.pc = "fetching", !.input = input,
                                     !.retries = Retries(input), !.signalAborted = a,
                                     !.attempts = 1]

\* aborted = options.signal.aborted || e.name === "AbortError"
Cancelled(f, failure) == f.signalAborted \/ failure = "abort"

\* the catch block that retries whatever the failure was
AfterFailure_IgnoresAbort(f, failure) ==
  IF f.attempt >= f.retries
  THEN [f EXCEPT !.pc = "thrown", !.lastFailure = failure]
  ELSE [f EXCEPT !.pc = "sleeping", !.lastFailure = failure, !.sleeps = @ + 1]

\* the catch block of the loop
AfterFailure(f, failure) ==
  IF Cancelled(f, failure) \/ f.attempt >= f.retries
  THEN [f EXCEPT !.pc = "thrown", !.lastFailure = failure]
  ELSE [f EXCEPT !.pc = "sleeping", !.lastFailure = failure, !.sleeps = @ + 1]

\* fetch resolves with a response (of any status)
FetchReturns ==
  /\ fetcher.pc = "fetching"
  /\ fetcher' = [fetcher EXCEPT !.pc = "returned"]
  /\ UNCHANGED <<appVars, parserVars, titleMeta, backend>>

\* fetch rejects: with an AbortError when the signal is aborted, else with a
\* network error
FetchRejects(failure) ==
  /\ fetcher.pc = "fetching"
  /\ failure = "abort" => fetcher.signalAborted
  /\ fetcher' = AfterFailure(fetcher, failure)
  /\ UNCHANGED <<appVars, parserVars, titleMeta, backend>>

\* sleep(delayMs) is over: attempt++ and the next fetch
SleepDone ==
  /\ fetcher.pc = "sleeping"
  /\ fetcher' = [fetcher EXCEPT !.pc = "fetching", !.attempt = @ + 1, !.attempts = @ + 1]
  /\ UNCHANGED <<appVars, parserVars, titleMeta, backend>>

\* the owner of the signal calls abort()
SignalAbort ==
  /\ fetcher.pc \in {"fetching", "sleeping"}
  /\ ~fetcher.signalAborted
  /\ fetcher' = [fetcher EXCEPT !.signalAborted = TRUE]
  /\ UNCHANGED <<appVars, parserVars, titleMeta, backend>>

RetryNext ==
  \/ FetchReturns
  \/ \E failure \in {"network", "abort"} : FetchRejects(failure)
  \/ SleepDone
  \/ SignalAbort

RetrySpec == RetryInit /\ [][RetryNext]_vars

\* C29: fetch is called at most retries + 1 times; a sleep and a further call
\* follow only a rejection that is no cancellation; a rejection with the signal
\* aborted or with an AbortError is rethrown in the same step, with no sleep and
\* no further call.
C29_RetryOnlyAfterTransientFailure ==
  [][/\ fetcher'.attempts <= fetcher'.retries + 1
     /\ fetcher'.pc = "sleeping" /\ fetcher.pc = "fetching"
          => ~fetcher.signalAborted /\ fetcher'.lastFailure = "network"
     /\ \A failure \in {"network", "abort"} :
          (FetchRejects(failure) /\ Cancelled(fetcher, failure))
            => /\ fetcher'.pc = "thrown"
               /\ fetcher'.attempts = fetcher.attempts
               /\ fetcher'.sleeps = fetcher.sleeps]_vars

\* after a retry the signal was aborted and the call threw at once, with
\* retries left
C29_Witness ==
  /\ fetcher.pc = "thrown"
  /\ fetcher.signalAborted
  /\ fetcher.attempts >= 2
  /\ fetcher.attempt < fetcher.retries
  /\ fetcher.sleeps = fetcher.attempt

\* --------------------------------------------- maybeAutoTitleConversation
\* The app with streaming switched off (every answer comes from POST /chat), the
\* timers finalizeStreaming sets, and the title requests.
\* titleMeta[c]: pending = requests to /titles/generate in flight,
\*               requests = history, requests issued so far.
CountRole(ms, role) == Cardinality({i \in 1..Len(ms) : ms[i].role = role})

\* String(list[0]?.content || "").trim() of the messages with this role
FirstContent(ms, role) ==
  IF CountRole(ms, role) = 0 THEN <<>>
  ELSE Trim(ms[CHOOSE i \in 1..Len(ms) :
                 ms[i].role = role /\ \A j \in 1..(i - 1) : ms[j].role # role].content)

\* the tests without the one on the number of messages
TitleChecks_AnyExchange(ms, meta) ==
  /\ meta.titleSource # "manual"
  /\ ~meta.titleAutoDone
  /\ FirstContent(ms, "user") # <<>>
  /\ FirstContent(ms, "assistant") # <<>>

\* the tests maybeAutoTitleConversation makes on the conversation it found
TitleChecks(ms, meta) ==
  /\ meta.titleSource # "manual"
  /\ ~meta.titleAutoDone
  /\ CountRole(ms, "user") = 1
  /\ CountRole(ms, "assistant") = 1
  /\ FirstContent(ms, "user") # <<>>
  /\ FirstContent(ms, "assistant") # <<>>

\* maybeAutoTitleConversation gets as far as its request
TitleGuardsPass(g, meta, c) == HasConv(g, c) /\ TitleChecks(g.conversations[c], meta)

\* conv.titleAutoDone = true, then the request
TitleRequested(meta) ==
  [meta EXCEPT !.titleAutoDone = TRUE, !.pending = @ + 1, !.requests = @ + 1]

\* the timer set by finalizeStreaming runs maybeAutoTitleConversation(c) up to
\* its await
TitleTimerFires(c) ==
  /\ titleTimers[c] > 0
  /\ CommitApp([Cur EXCEPT !.titleTimers[c] = @ - 1])
  /\ titleMeta' = IF TitleGuardsPass(Cur, titleMeta[c], c)
                  THEN [titleMeta EXCEPT ![c] = TitleRequested(@)]
                  ELSE titleMeta
  /\ UNCHANGED <<sends, nSends, fetcher, backend>>

\* titles a response of /titles/generate can carry (empty: no title, an HTTP
\* error or a failed request)
Titles == {<<>>, <<"t">>}

\* TitleResponse without the test for a manual title
TitleResponse_IgnoresManual(c, title) ==
  /\ titleMeta[c].pending > 0
  /\ titleMeta' =
       IF title # <<>> /\ title # titleMeta[c].title
       THEN [titleMeta EXCEPT ![c].pending = @ - 1, ![c].title = title, ![c].titleSource = "ai"]
       ELSE [titleMeta EXCEPT ![c].pending = @ - 1]
  /\ UNCHANGED <<appVars, parserVars, fetcher, backend>>

\* the request to /titles/generate is over
TitleResponse(c, title) ==
  /\ titleMeta[c].pending > 0
  /\ titleMeta' =
       IF title # <<>> /\ titleMeta[c].titleSource # "manual" /\ title # titleMeta[c].title
       THEN [titleMeta EXCEPT ![c].pending = @ - 1, ![c].title = title, ![c].titleSource = "ai"]
       ELSE [titleMeta EXCEPT ![c].pending = @ - 1]
  /\ UNCHANGED <<appVars, parserVars, fetcher, backend>>

\* renameConversation with a title that is not blank
RenameConversation(c) ==
  /\ c \in DOMAIN conversations
  /\ titleMeta[c].titleSource # "manual"
  /\ titleMeta' = [titleMeta EXCEPT ![c].title = <<"r">>, ![c].titleSource = "manual",
                                     ![c].titleAutoDone = TRUE]
  /\ UNCHANGED <<appVars, parserVars, fetcher, backend>>

TitleNext ==
  \/ SendMessage(FALSE, FALSE)
  \/ \E s \in Sends, k \in {"http", "reply"}, raw \in Replies : ChatOnceDone(s, k, raw)
  \/ \E s \in Sends : AbortError(s)
  \/ StopGenerating
  \/ GoHome
  \/ \E c \in Sends : TitleTimerFires(c)
  \/ \E c \in Sends, title \in Titles : TitleResponse(c, title)
  \/ \E c \in Sends : RenameConversation(c)

TitleSpec == Init /\ [][TitleNext]_vars

\* C24: a call of maybeAutoTitleConversation is scheduled only by a finalization
\* as ok of a session of that conversation; at most one title request is issued
\* per conversation; and it is issued while the conversation holds one user and
\* one assistant message.
C24_TitleRequestedOncePerConversation ==
  [][\A c \in Sends :
       /\ titleTimers'[c] > titleTimers[c]
            => \E s \in Sends : FinalizedAs(s, "ok") /\ sends[s].conv = c
       /\ titleMeta'[c].requests <= 1
       /\ titleMeta'[c].requests > titleMeta[c].requests
            => /\ CountRole(conversations[c], "user") = 1
               /\ CountRole(conversations[c], "assistant") = 1]_vars

\* the title request of a conversation is in flight, its second exchange was
\* finalized ok, and the call scheduled by that finalization has run
C24_Witness ==
  \E c \in Sends :
    /\ c \in DOMAIN conversations
    /\ Len(conversations[c]) = 4
    /\ \A s \in Sends : sends[s].conv = c /\ outcome[AsstMsgId(s)] = "ok"
    /\ titleTimers[c] = 0
    /\ titleMeta[c].pending = 1
    /\ titleMeta[c].requests = 1

\* C39: once a conversation has a manual title, no step changes its title or
\* its title source and no step issues a title request for it; this includes the
\* response of a request that was in flight when the title was set.
C39_ManualTitleIsKept ==
  [][\A c \in Sends :
       titleMeta[c].titleSource = "manual"
         => /\ titleMeta'[c].title = titleMeta[c].title
            /\ titleMeta'[c].titleSource = "manual"
            /\ titleMeta'[c].requests = titleMeta[c].requests]_vars

\* a conversation was renamed while its title request was in flight
C39_Witness ==
  \E c \in Sends :
    /\ titleMeta[c].titleSource = "manual"
    /\ titleMeta[c].title = <<"r">>
    /\ titleMeta[c].requests = 1
    /\ titleMeta[c].pending = 1

\* ------------------------------------------- readSseStream, frame dispatch
\* A body of one frame with the event names and the payloads emit tells apart:
\* no `event:` line, the names message and event, a name with a branch of its
\* own, a name without one; plain text, JSON objects with and without a type
\* field, a JSON array, a JSON string, balanced text that is not JSON, nothing.
DispatchEvents == {<<>>, NameMessage, NameEvent, NameDelta, NameMeta, NameFoo}
DispatchData ==
  {<<>>, <<"x">>, EmptyObject.json, JsonTypeError, JsonTypeFoo, JsonTextT, JsonArray, NotJson,
   JsonString}
DispatchRests == {<<>>, <<" ", "H">>}

DispatchInit ==
  /\ InitApp
  /\ InitHelpersIdle
  /\ frame \in [event : DispatchEvents, prefix : DispatchData, rest : DispatchRests]
  /\ stream = FrameBody(frame)
  /\ pos = 0
  /\ parser = NewParser
  /\ readerDone = FALSE
  /\ boundary = "none"

DispatchSpec == DispatchInit /\ [][FrameNext]_vars

\* the handlers called so far, in order
Handlers == [i \in DOMAIN parser.calls |-> parser.calls[i].handler]

\* the frame has no `event:` line, or one that names message or event
DefaultNamed(f) == f.event \in {<<>>, NameMessage, NameEvent}

\* C31: a frame is dispatched under the name of its `event:` line when that line
\* names something other than message or event, whatever type field its JSON
\* carries; only a frame without such a name is dispatched under the type field
\* of its JSON object.
C31_ExplicitEventNameWins ==
  pos = Len(stream) =>
    /\ frame.event = NameDelta => Handlers = <<"onDelta">>
    /\ frame.event = NameMeta => Handlers = <<"onMeta">>
    /\ (DefaultNamed(frame) /\ frame.prefix = JsonTypeError) => Handlers = <<"onError">>

\* `event: delta` with a payload of type "error" was dispatched as a delta
C31_Witness ==
  /\ pos = Len(stream)
  /\ frame.event = NameDelta
  /\ frame.prefix = JsonTypeError
  /\ Handlers = <<"onDelta">>
  /\ ~parser.sawTerminal

\* the data of the frame starts with a JSON object
ObjectData(f) == f.prefix \in {EmptyObject.json, JsonTypeError, JsonTypeFoo, JsonTextT}

\* the frame is dispatched under a name emit has no branch for
Unrecognized(f) ==
  \/ f.event = NameFoo
  \/ DefaultNamed(f) /\ f.prefix \notin {JsonTypeError}

\* C32: a frame under a name without a branch of its own makes one onDelta call
\* with a non-empty text when its data is non-empty and is not a JSON object, and
\* no call at all otherwise; after it the parser is ready for the next frame.
C32_UnknownNameFallsBackToText ==
  (pos = Len(stream) /\ Unrecognized(frame)) =>
    /\ IF ~ObjectData(frame) /\ frame.prefix \o frame.rest # <<>>
       THEN Handlers = <<"onDelta">> /\ parser.calls[1].arg # <<>>
       ELSE parser.calls = <<>>
    /\ ~parser.sawTerminal
    /\ parser.event = NameMessage /\ parser.dataLines = <<>> /\ parser.buf = <<>>

\* a JSON object under an unknown name was dropped
C32_Witness ==
  /\ pos = Len(stream)
  /\ frame.event = NameFoo
  /\ frame.prefix = JsonTextT
  /\ frame.rest # <<>>
  /\ parser.calls = <<>>

\* ------------------------------------- readSseStream, a frame of two lines
\* A body of one frame with two `data:` lines (prefix is the first, rest the
\* second) after an optional `event:` line.
MultiEvents == {<<>>, NameDelta, NameFoo}
MultiLines == {<<>>, <<"x">>, DoneSentinel, <<"{">>, <<"}">>, JsonTextT}

MultiBody(f) ==
  EventLine(f.event) \o FieldData \o f.prefix \o <<"\n">> \o FieldData \o f.rest
    \o <<"\n", "\n">>

MultiInit ==
  /\ InitApp
  /\ InitHelpersIdle
  /\ frame \in [event : MultiEvents, prefix : MultiLines, rest : MultiLines]
  /\ stream = MultiBody(frame)
  /\ pos = 0
  /\ parser = NewParser
  /\ readerDone = FALSE
  /\ boundary = "none"

MultiSpec == MultiInit /\ [][FrameNext]_vars

\* a parser that has read the `event:` line of the frame, if any
AfterEventLine(f) ==
  [NewParser EXCEPT !.event = IF f.event = <<>> THEN NameMessage ELSE f.event]

\* C33: a frame with two data lines makes at most one handler call, and its
\* calls and its terminal flag are those emit makes for the single text that is
\* the first line, a newline and the second line.
C33_DataLinesJoinedByNewline ==
  pos = Len(stream) =>
    /\ Len(parser.calls) <= 1
    /\ parser.calls =
         EmitData(AfterEventLine(frame), frame.prefix \o <<"\n">> \o frame.rest).calls
    /\ parser.sawTerminal =
         EmitData(AfterEventLine(frame), frame.prefix \o <<"\n">> \o frame.rest).sawTerminal

\* the lines [DONE] and x were one text event, not a terminal event and a text
C33_Witness ==
  /\ pos = Len(stream)
  /\ frame.prefix = DoneSentinel
  /\ frame.rest = <<"x">>
  /\ parser.calls = <<[handler |-> "onDelta", arg |-> <<"x">>]>>
  /\ ~parser.sawTerminal

\* ------------------------- readSseStream, an `event:` line without its data
\* A body of two frames: an `event:` line closed by a blank line, then a frame
\* of one `data:` line with no `event:` line of its own.
CarryEvents == {NameStatus, NameDone, NameDelta, NameError, NameMeta, NameFoo}
CarryData ==
  {<<>>, <<"x">>, EmptyObject.json, JsonTextT, JsonTypeError, JsonArray, JsonString}

OwnFrame(f) == FieldData \o f.prefix \o <<"\n", "\n">>

CarryBody(f) == EventLine(f.event) \o <<"\n">> \o OwnFrame(f)

CarryInit ==
  /\ InitApp
  /\ InitHelpersIdle
  /\ frame \in [event : CarryEvents, prefix : CarryData, rest : {<<>>}]
  /\ stream = CarryBody(frame)
  /\ pos = 0
  /\ parser = NewParser
  /\ readerDone = FALSE
  /\ boundary = "none"

CarrySpec == CarryInit /\ [][FrameNext]_vars

\* C36: a frame is dispatched by its own fields: after an `event:` line that was
\* closed by a blank line without data, the next frame makes the calls, and sets
\* the terminal flag, as it does when it is the whole body.
C36_EventNameDoesNotCarryOver ==
  pos = Len(stream) =>
    /\ parser.calls = SingleChunk(OwnFrame(frame)).calls
    /\ parser.sawTerminal = SingleChunk(OwnFrame(frame)).sawTerminal

\* ------------------------------------------------- ensureBackendBaseOnline
\* BACKEND_BASE, the value saved under the backend-base key, the health cache
\* (_healthLastBase, _healthLastOk, _healthInFlight; fresh = the last result is
\* younger than HEALTH_COOLDOWN_MS) and up to MaxCallers overlapping calls of
\* ensureBackendBaseOnline or pingBackendHealth.  Booleans that can be null are
\* "true", "false", "null".  jobs is the microtask queue: the calls whose await
\* has been answered, in the order they resume; timers, network events and new
\* calls wait until it is empty.  The position of a call:
\*   own, joined : pingBackendHealth waits for the request (own: it made it)
\*   answered    : the request is over, pingBackendHealth resumes
\*   pinged      : pingBackendHealth has returned, its caller resumes
\*   returning   : ensureBackendBaseOnline has returned, its caller resumes
BackendInit ==
  /\ InitApp
  /\ InitParserIdle
  /\ titleMeta = [c \in Sends |-> NewTitleMeta]
  /\ fetcher = IdleFetcher
  /\ \E b \in Bases, saved \in BOOLEAN :
       /\ b # BaseIp => saved
       /\ backend = [IdleBackend EXCEPT !.base = b, !.stored = IF saved THEN b ELSE ""]

\* getAlternateBackendBases
getAlternateBackendBases(raw) ==
  (IF raw = "" THEN <<>> ELSE <<IF raw = BaseLocalhost THEN BaseIp ELSE raw>>)
    \o (IF raw \in {BaseLocalhost, BaseIp} THEN <<>> ELSE <<BaseIp>>)

\* pingBackendHealth answers from the cache
Cached(b, pbase) == pbase # "" /\ pbase = b.lastBase /\ b.lastOk # "null" /\ b.fresh

\* pingBackendHealth waits for the request that is in flight
Joins(b, pbase) == b.inFlight # 0 /\ pbase # "" /\ pbase = b.lastBase

\* pingBackendHealth up to its await, for call c
pingBackendHealth(b, c) ==
  IF Cached(b, b.base)
  THEN [b EXCEPT !.calls[c].pc = "pinged", !.calls[c].value = b.lastOk,
                 !.jobs = Append(@, c)]
  ELSE IF Joins(b, b.base)
  THEN [b EXCEPT !.calls[c].pc = "joined", !.calls[c].probe = b.inFlight,
                 !.calls[c].own = FALSE, !.probes[b.inFlight].waiters = Append(@, c)]
  ELSE [b EXCEPT !.lastBase = b.base,
                 !.probes = Append(@, [base |-> b.base, state |-> "pending", waiters |-> <<c>>]),
                 !.inFlight = Len(b.probes) + 1,
                 !.calls[c].pc = "own", !.calls[c].probe = Len(b.probes) + 1,
                 !.calls[c].own = TRUE]

\* ensureBackendBaseOnline returns: its caller resumes one job later
ReturnFromEnsure(b, c, result) ==
  [b EXCEPT !.calls[c].pc = "returning", !.calls[c].result = result, !.jobs = Append(@, c)]

\* a loop turn that probes the candidate without making it BACKEND_BASE
TryCandidate_KeepsBase(b, c, i) ==
  IF i > Len(b.calls[c].candidates)
  THEN ReturnFromEnsure([b EXCEPT !.online = "false"], c, "false")
  ELSE pingBackendHealth([b EXCEPT !.calls[c].i = i], c)

\* one turn of the loop of ensureBackendBaseOnline up to its await, or the end
\* of the loop
TryCandidate(b, c, i) ==
  IF i > Len(b.calls[c].candidates)
  THEN ReturnFromEnsure([b EXCEPT !.online = "false"], c, "false")
  ELSE pingBackendHealth([b EXCEPT !.base = b.calls[c].candidates[i], !.calls[c].i = i], c)

\* ensureBackendBaseOnline from its first line, for call c
ensureBackendBaseOnline(b, c) ==
  TryCandidate([b EXCEPT !.calls[c] = [IdleCall EXCEPT
                            !.kind = "ensure",
                            !.candidates = getAlternateBackendBases(b.base),
                            !.entry = b.base]],
               c, 1)

\* the request to /health can be made, or is not needed
ProbeAllowed(b, pbase) == Cached(b, pbase) \/ Joins(b, pbase) \/ Len(b.probes) < MaxProbes

\* the next candidate of call c, if the loop goes on, can be probed
NextAllowed(b, c) ==
  IF b.calls[c].value = "true" \/ b.calls[c].i >= Len(b.calls[c].candidates)
  THEN TRUE
  ELSE ProbeAllowed(b, b.calls[c].candidates[b.calls[c].i + 1])

\* ensureBackendBaseOnline is called (runChatFallback, the catch of sendMessage)
EnsureEnter(c) ==
  /\ backend.jobs = <<>>
  /\ backend.calls[c].pc \in {"idle", "done"}
  /\ backend.entered < MaxCalls
  /\ ProbeAllowed(backend, getAlternateBackendBases(backend.base)[1])
  /\ backend' = ensureBackendBaseOnline([backend EXCEPT !.entered = @ + 1], c)
  /\ UNCHANGED <<appVars, parserVars, titleMeta, fetcher>>

\* pingBackendHealth is called at page load
PingEnter(c) ==
  /\ backend.jobs = <<>>
  /\ backend.calls[c].pc \in {"idle", "done"}
  /\ backend.entered < MaxCalls
  /\ ProbeAllowed(backend, backend.base)
  /\ backend' =
       pingBackendHealth([backend EXCEPT !.entered = @ + 1,
                                         !.calls[c] = [IdleCall EXCEPT !.kind = "ping",
                                                                       !.entry = backend.base]],
                         c)
  /\ UNCHANGED <<appVars, parserVars, titleMeta, fetcher>>

\* every waiter of the request becomes a job, in the order they began to wait
RECURSIVE Answer(_, _)
Answer(b, waiters) ==
  IF waiters = <<>> THEN b
  ELSE Answer([b EXCEPT !.calls[Head(waiters)].pc = "answered",
                        !.jobs = Append(@, Head(waiters))],
              Tail(waiters))

\* the request to /health ends: res.ok, or a failure or the 900 ms timeout
ProbeEnds(id, ok) ==
  /\ backend.jobs = <<>>
  /\ id \in DOMAIN backend.probes
  /\ backend.probes[id].state = "pending"
  /\ backend' = Answer([backend EXCEPT !.probes[id].state = ok], backend.probes[id].waiters)
  /\ UNCHANGED <<appVars, parserVars, titleMeta, fetcher>>

\* pingBackendHealth after its own request: _healthInFlight = null, the result
\* goes into the cache
AfterOwnProbe(b, c) ==
  IF b.calls[c].own
  THEN [b EXCEPT !.inFlight = 0, !.fresh = TRUE, !.lastOk = b.probes[b.calls[c].probe].state]
  ELSE b

\* the first job leaves the queue
Pop(b) == [b EXCEPT !.jobs = Tail(@)]

\* pingBackendHealth of the first job resumes and returns the result
PingResumes ==
  /\ backend.jobs # <<>>
  /\ backend.calls[Head(backend.jobs)].pc = "answered"
  /\ backend' =
       [AfterOwnProbe(Pop(backend), Head(backend.jobs)) EXCEPT
          !.calls[Head(backend.jobs)].pc = "pinged",
          !.calls[Head(backend.jobs)].value =
             backend.probes[backend.calls[Head(backend.jobs)].probe].state,
          !.jobs = Append(@, Head(backend.jobs))]
  /\ UNCHANGED <<appVars, parserVars, titleMeta, fetcher>>

\* what follows `await pingBackendHealth(900)` in ensureBackendBaseOnline
AfterPing(b, c) ==
  IF b.calls[c].value = "true"
  THEN ReturnFromEnsure([b EXCEPT !.online = "true",
                                  !.stored = b.calls[c].candidates[b.calls[c].i]],
                        c, "true")
  ELSE TryCandidate(b, c, b.calls[c].i + 1)

\* ensureBackendBaseOnline of the first job resumes after its ping
EnsureResumes ==
  /\ backend.jobs # <<>>
  /\ backend.calls[Head(backend.jobs)].pc = "pinged"
  /\ backend.calls[Head(backend.jobs)].kind = "ensure"
  /\ NextAllowed(backend, Head(backend.jobs))
  /\ backend' = AfterPing(Pop(backend), Head(backend.jobs))
  /\ UNCHANGED <<appVars, parserVars, titleMeta, fetcher>>

\* the page-load callback: online when the ping was ok, else it calls
\* ensureBackendBaseOnline
StartupResumes ==
  /\ backend.jobs # <<>>
  /\ backend.calls[Head(backend.jobs)].pc = "pinged"
  /\ backend.calls[Head(backend.jobs)].kind = "ping"
  /\ backend.calls[Head(backend.jobs)].value = "true"
       \/ ProbeAllowed(backend, getAlternateBackendBases(backend.base)[1])
  /\ backend' =
       IF backend.calls[Head(backend.jobs)].value = "true"
       THEN [Pop(backend) EXCEPT !.online = "true", !.calls[Head(backend.jobs)].pc = "done",
                                 !.calls[Head(backend.jobs)].result = "true"]
       ELSE ensureBackendBaseOnline(Pop(backend), Head(backend.jobs))
  /\ UNCHANGED <<appVars, parserVars, titleMeta, fetcher>>

\* the caller of ensureBackendBaseOnline resumes with the result
CallerResumes ==
  /\ backend.jobs # <<>>
  /\ backend.calls[Head(backend.jobs)].pc = "returning"
  /\ backend' = [Pop(backend) EXCEPT !.calls[Head(backend.jobs)].pc = "done"]
  /\ UNCHANGED <<appVars, parserVars, titleMeta, fetcher>>

\* HEALTH_COOLDOWN_MS have passed since the last result
CooldownOver ==
  /\ backend.jobs = <<>>
  /\ backend.fresh
  /\ backend' = [backend EXCEPT !.fresh = FALSE]
  /\ UNCHANGED <<appVars, parserVars, titleMeta, fetcher>>

BackendNext ==
  \/ \E c \in 1..MaxCallers : EnsureEnter(c)
  \/ \E c \in 1..MaxCallers : PingEnter(c)
  \/ \E id \in 1..MaxProbes, ok \in {"true", "false"} : ProbeEnds(id, ok)
  \/ PingResumes
  \/ EnsureResumes
  \/ StartupResumes
  \/ CallerResumes
  \/ CooldownOver

BackendSpec == BackendInit /\ [][BackendNext]_vars

\* the caller of call c of ensureBackendBaseOnline resumes in this step, and
\* the call returned this result
Returns(c, result) ==
  /\ backend.calls[c].pc = "returning"
  /\ backend'.calls[c].pc = "done"
  /\ backend.calls[c].result = result

\* the candidate call c of ensureBackendBaseOnline probed last
Candidate(c) == backend.calls[c].candidates[backend.calls[c].i]

\* C35: when ensureBackendBaseOnline returns true for a candidate, that
\* candidate is BACKEND_BASE and is the value saved under the backend-base key
\* when the call returns and when its caller resumes, also when calls overlap.
C35_ResolvedBaseIsUsedAndSaved ==
  [][\A c \in 1..MaxCallers :
       Returns(c, "true") =>
         /\ backend.base = Candidate(c) /\ backend.stored = Candidate(c)
         /\ backend'.base = Candidate(c) /\ backend'.stored = Candidate(c)]_vars

\* a call found the alternate reachable after the configured endpoint failed,
\* and its caller resumed
C35_Witness ==
  \E c \in 1..MaxCallers :
    /\ backend.calls[c].pc = "done"
    /\ backend.calls[c].kind = "ensure"
    /\ backend.calls[c].result = "true"
    /\ backend.calls[c].entry = BaseCustom
    /\ backend.calls[c].i = 2
    /\ backend.base = BaseIp
    /\ backend.stored = BaseIp

\* C38: when ensureBackendBaseOnline returns false, BACKEND_BASE is what it was
\* when the call started.
C38_FailedResolutionKeepsBase ==
  [][\A c \in 1..MaxCallers :
       Returns(c, "false") => backend'.base = backend.calls[c].entry]_vars

====
